---- MODULE Spec2Model ----
(***************************************************************************)
(* A model of deno_jamf_school: the API surface (src/internal/api.ts), the *)
(* response validators (src/schemas) and the Device domain object          *)
(* (src/internal/device.ts).                                               *)
(*                                                                         *)
(* JavaScript values are tagged records.  A value that is a string in one  *)
(* place and a number in another is never stored in the same field, so     *)
(* every field of the model has one TLA+ type.                             *)
(***************************************************************************)
EXTENDS Integers, Sequences, FiniteSets, TLC

VARIABLES
    pc,          \* "idle" | "awaiting" (a request is in flight) |
                 \* "awaitingAll" (a Promise.all is pending) | "settled"
    invocation,  \* the call the caller made: layer, method, args
    awaited,     \* the API call the invocation awaits or awaited last
    wire,        \* the HTTP requests this invocation has issued, in order
    reply,       \* the HTTP response the invocation received last
    outcome,     \* how the invocation's promise settled
    data,        \* Device.#data, the Device's snapshot
    appData,     \* App.#data, the App's snapshot
    joined,      \* the calls of the Promise.all the invocation awaits, each
                 \* with its requests, its last response and its promise
    heap,        \* the record objects in memory, by address
    refs,        \* the address each Domain Object's #data holds, and the one
                 \* the caller holds (0: none)
    flights      \* the overlapping method calls the caller has started

sequential == <<pc, invocation, awaited, wire, reply, outcome, data, appData, joined>>
objects == <<heap, refs, flights>>
vars == <<pc, invocation, awaited, wire, reply, outcome, data, appData, joined,
          heap, refs, flights>>

(***************************************************************************)
(* Bounds of the model.                                                    *)
(***************************************************************************)
\* Longest UDID array handed to moveDevices (one more than the code allows).
MaxArrayLen == 21
\* Longest string handed to isValidUDID on its own.
MaxUdidLen == 3
\* Longest entry list handed to toSearchParams.
MaxEntries == 2

(***************************************************************************)
(* JavaScript numbers.  A finite number is sign, integer part and tenths;  *)
(* the integer part is hi * 2^27 + lo, so that 2^53 fits 32-bit            *)
(* arithmetic.                                                             *)
(***************************************************************************)
Limb == 2^27

NaN == [k |-> "nan"]
Infinity == [k |-> "inf"]
NegInfinity == [k |-> "ninf"]
Finite(neg, hi, lo, tenths) ==
    [k |-> "fin", neg |-> neg, hi |-> hi, lo |-> lo, tenths |-> tenths]
Num(i) == Finite(FALSE, 0, i, 0)
Neg(i) == Finite(TRUE, 0, i, 0)
\* Number.MAX_SAFE_INTEGER = 2^53 - 1 and its successor 2^53
MAX_SAFE_INTEGER == Finite(FALSE, 2^26 - 1, Limb - 1, 0)
TwoPow53 == Finite(FALSE, 2^26, 0, 0)

NumberIsFinite(n) == n.k = "fin"
NumberIsInteger(n) == n.k = "fin" /\ n.tenths = 0
NumberIsSafeInteger(n) == NumberIsInteger(n) /\ n.hi < 2^26
IsZero(n) == n.k = "fin" /\ n.hi = 0 /\ n.lo = 0 /\ n.tenths = 0
\* n >= 0
GeqZero(n) ==
    CASE n.k = "nan" -> FALSE
      [] n.k = "inf" -> TRUE
      [] n.k = "ninf" -> FALSE
      [] OTHER -> (~n.neg) \/ IsZero(n)
\* a === b on numbers: NaN equals nothing, -0 equals 0
StrictEq(a, b) ==
    /\ a.k # "nan"
    /\ b.k # "nan"
    /\ (a = b \/ (IsZero(a) /\ IsZero(b)))

Digit(d) ==
    CASE d = 0 -> "0" [] d = 1 -> "1" [] d = 2 -> "2" [] d = 3 -> "3"
      [] d = 4 -> "4" [] d = 5 -> "5" [] d = 6 -> "6" [] d = 7 -> "7"
      [] d = 8 -> "8" [] OTHER -> "9"

RECURSIVE Decimal(_, _)
\* the decimal digits of hi * 2^27 + lo, by long division by ten
Decimal(hi, lo) ==
    LET q1 == hi \div 10
        t == (hi % 10) * Limb + lo
        q0 == t \div 10
    IN  IF q1 = 0 /\ q0 = 0
        THEN Digit(t % 10)
        ELSE Decimal(q1, q0) \o Digit(t % 10)

\* String(n) for a number n
NumberToString(n) ==
    CASE n.k = "nan" -> "NaN"
      [] n.k = "inf" -> "Infinity"
      [] n.k = "ninf" -> "-Infinity"
      [] OTHER ->
            (IF n.neg /\ ~IsZero(n) THEN "-" ELSE "")
            \o Decimal(n.hi, n.lo)
            \o (IF n.tenths = 0 THEN "" ELSE "." \o Digit(n.tenths))

(***************************************************************************)
(* JavaScript / JSON values.                                               *)
(***************************************************************************)
Undefined == [t |-> "undefined"]
JNull == [t |-> "null"]
JBool(b) == [t |-> "boolean", b |-> b]
JNum(n) == [t |-> "number", n |-> n]
JStr(s) == [t |-> "string", s |-> s]
JArr(a) == [t |-> "array", a |-> a]
JObj(o) == [t |-> "object", o |-> o]
NoProperties == [key \in {} |-> Undefined]

\* Number(val) for a boolean
NumberOfBoolean(b) == IF b THEN Num(1) ELSE Num(0)

\* String(val), for the primitives a query can hold
String(val) ==
    CASE val.t = "string" -> val.s
      [] val.t = "number" -> NumberToString(val.n)
      [] val.t = "boolean" -> (IF val.b THEN "true" ELSE "false")
      [] val.t = "null" -> "null"
      [] OTHER -> "undefined"

RECURSIVE SelectEntries(_)
\* .filter(([_, val]) => val != null): loose inequality drops null and undefined
SelectEntries(entries) ==
    IF entries = <<>> THEN <<>>
    ELSE LET e == Head(entries)
             rest == SelectEntries(Tail(entries))
         IN  IF e.val.t \in {"null", "undefined"} THEN rest ELSE <<e>> \o rest

\* one entry through both .map steps
MapEntry(e) ==
    [key |-> e.key,
     str |-> String(IF e.val.t = "boolean" THEN JNum(NumberOfBoolean(e.val.b)) ELSE e.val)]

\* the filter dropped: null and undefined entries are kept and stringified
toSearchParams_keepNullish(entries) ==
    IF Len(entries) > 0
    THEN [t |-> "URLSearchParams",
          entries |-> [i \in 1..Len(entries) |-> MapEntry(entries[i])]]
    ELSE Undefined

toSearchParams(entries) ==
    LET kept == SelectEntries(entries)
        mapped == [i \in 1..Len(kept) |-> MapEntry(kept[i])]
    IN  IF Len(mapped) > 0
        THEN [t |-> "URLSearchParams", entries |-> mapped]
        ELSE Undefined

(***************************************************************************)
(* Input validation.  A UDID is a sequence of one-character strings.       *)
(***************************************************************************)
HexOrDash ==
    {"0", "1", "2", "3", "4", "5", "6", "7", "8", "9",
     "a", "b", "c", "d", "e", "f", "A", "B", "C", "D", "E", "F", "-"}

\* the pattern without its i flag: capital letters do not match
isValidUDID_caseSensitive(udid) ==
    /\ Len(udid) > 0
    /\ \A i \in 1..Len(udid) :
            udid[i] \in HexOrDash \ {"A", "B", "C", "D", "E", "F"}

\* /^[0-9a-f\-]+$/i.test(udid)
isValidUDID(udid) ==
    /\ Len(udid) > 0
    /\ \A i \in 1..Len(udid) : udid[i] \in HexOrDash

\* TRUE when the assertion passes, FALSE when it throws
assertValidUDID(udid) == isValidUDID(udid)

\* the comparison with zero dropped: negative integers pass
isValidID_noLowerBound(id) ==
    NumberIsFinite(id) /\ NumberIsSafeInteger(id)

isValidID(id) ==
    NumberIsFinite(id) /\ NumberIsSafeInteger(id) /\ GeqZero(id)

assertValidID(id) == isValidID(id)

(***************************************************************************)
(* Schema registry: JSON Type Definition schemas and their validator.      *)
(* A schema is written as in the source: [type |-> ..], [enum |-> ..],     *)
(* [elements |-> ..], [properties |-> .., optionalProperties |-> ..]; the  *)
(* empty schema accepts every value.                                       *)
(***************************************************************************)
\* a UDID-valued JSON string, carried as its characters
JChars(c) == [t |-> "string", c |-> c]

IsInt32(n) ==
    /\ NumberIsInteger(n)
    /\ \/ n.hi < 16
       \/ (n.neg /\ n.hi = 16 /\ n.lo = 0)

\* every type form also takes null
JTDType_nullable(type, v) ==
    \/ v.t = "null"
    \/ CASE type = "string" -> v.t = "string"
          [] type = "boolean" -> v.t = "boolean"
          [] type = "int32" -> v.t = "number" /\ IsInt32(v.n)
          [] type \in {"float32", "float64"} -> v.t = "number"
          [] OTHER -> FALSE

JTDType(type, v) ==
    CASE type = "string" -> v.t = "string"
      [] type = "boolean" -> v.t = "boolean"
      [] type = "int32" -> v.t = "number" /\ IsInt32(v.n)
      [] type \in {"float32", "float64"} -> v.t = "number"
      [] OTHER -> FALSE

RequiredOf(schema) ==
    IF "properties" \in DOMAIN schema THEN schema.properties ELSE NoProperties
OptionalOf(schema) ==
    IF "optionalProperties" \in DOMAIN schema
    THEN schema.optionalProperties ELSE NoProperties

RECURSIVE JTDValid(_, _)
JTDValid(schema, v) ==
    CASE "type" \in DOMAIN schema -> JTDType(schema.type, v)
      [] "enum" \in DOMAIN schema -> v.t = "string" /\ "s" \in DOMAIN v /\ v.s \in schema.enum
      [] "elements" \in DOMAIN schema ->
            /\ v.t = "array"
            /\ \A i \in 1..Len(v.a) : JTDValid(schema.elements, v.a[i])
      [] DOMAIN schema \cap {"properties", "optionalProperties"} # {} ->
            LET req == RequiredOf(schema)
                opt == OptionalOf(schema)
            IN  /\ v.t = "object"
                /\ \A key \in DOMAIN req :
                        key \in DOMAIN v.o /\ JTDValid(req[key], v.o[key])
                /\ \A key \in DOMAIN opt :
                        key \in DOMAIN v.o => JTDValid(opt[key], v.o[key])
                /\ \/ ("additionalProperties" \in DOMAIN schema
                          /\ schema.additionalProperties)
                   \/ DOMAIN v.o \subseteq (DOMAIN req \cup DOMAIN opt)
      [] OTHER -> TRUE

string == [type |-> "string"]
boolean == [type |-> "boolean"]
int32 == [type |-> "int32"]
float32 == [type |-> "float32"]

\* schemas/GET_devices.ts
responseSchema_GET_devices ==
    [properties |-> [
        code |-> int32,
        count |-> int32,
        devices |-> [elements |-> [
            properties |-> [
                UDID |-> string,
                locationId |-> int32,
                serialNumber |-> string,
                name |-> string,
                isManaged |-> boolean,
                isSupervised |-> boolean,
                class |-> string,
                assetTag |-> string,
                os |-> [properties |-> [prefix |-> string, version |-> string]],
                model |-> [properties |-> [
                    name |-> string, identifier |-> string, type |-> string]],
                owner |-> [
                    properties |-> [
                        id |-> int32,
                        locationId |-> int32,
                        name |-> string,
                        vpp |-> [elements |-> [properties |-> [status |-> string]]]],
                    optionalProperties |-> [
                        username |-> string,
                        email |-> string,
                        firstName |-> string,
                        lastName |-> string,
                        notes |-> string,
                        modified |-> string]],
                groups |-> [elements |-> string],
                enrollType |-> [enum |-> {"ac2", "ac2Pending", "dep", "depPending", "manual"}],
                batteryLevel |-> float32,
                totalCapacity |-> float32,
                availableCapacity |-> float32,
                iCloudBackupEnabled |-> boolean,
                iCloudBackupLatest |-> string,
                iTunesStoreLoggedIn |-> boolean,
                modified |-> string,
                lastCheckin |-> string,
                depProfile |-> string,
                notes |-> string,
                region |-> [
                    properties |-> [string |-> string],
                    optionalProperties |-> [coordinates |-> string]],
                networkInformation |-> [
                    properties |-> [
                        IPAddress |-> string,
                        isNetworkTethered |-> string,
                        BluetoothMAC |-> string,
                        WiFiMAC |-> string,
                        VoiceRoamingEnabled |-> string,
                        DataRoamingEnabled |-> string,
                        PersonalHotspotEnabled |-> string],
                    optionalProperties |-> [
                        EthernetMACs |-> string,
                        ServiceSubscription |-> [elements |-> [
                            properties |-> [
                                CarrierSettingsVersion |-> string,
                                CurrentCarrierNetwork |-> string,
                                CurrentMCC |-> string,
                                CurrentMNC |-> string,
                                ICCID |-> string,
                                IMEI |-> string,
                                IsDataPreferred |-> boolean,
                                IsRoaming |-> boolean,
                                IsVoicePreferred |-> boolean,
                                Label |-> string,
                                LabelID |-> string,
                                PhoneNumber |-> string,
                                Slot |-> string],
                            optionalProperties |-> [
                                MEID |-> string,
                                EID |-> string]]]]]],
            optionalProperties |-> [
                isBootstrapStored |-> boolean,
                apps |-> [elements |-> [properties |-> [
                    name |-> string,
                    identifier |-> string,
                    version |-> string,
                    vendor |-> string,
                    icon |-> string]]]]]]]]

\* the schema of a device command's answer: a message and the device's UDID
responseSchema_message_device ==
    [properties |-> [message |-> string, device |-> string]]

\* a route whose answer wraps its payload: { code, <field>: payload }
Wrapped(field, payload) ==
    [properties |-> (field :> payload) @@ [code |-> int32],
     additionalProperties |-> TRUE]

\* an entity record: every entity has a numeric id; the rest is not constrained here
Entity == [properties |-> [id |-> int32], additionalProperties |-> TRUE]
\* an app record: the members the App class reads are required
AppSchema ==
    [properties |-> [id |-> int32, bundleId |-> string, locationId |-> int32],
     additionalProperties |-> TRUE]
\* the answer of a write that names no device
Acknowledged == [properties |-> [code |-> int32, message |-> string]]

\* The compiled validator of each route (schemas/mod.bundle.js).
RouteSchema(route) ==
    CASE route = "GET /devices" -> responseSchema_GET_devices
      [] route = "GET /devices/:udid" -> Wrapped("device", Entity)
      [] route = "GET /devices/groups" -> Wrapped("deviceGroups", [elements |-> Entity])
      [] route = "GET /devices/groups/:id" -> Wrapped("deviceGroup", Entity)
      [] route = "GET /users" -> Wrapped("users", [elements |-> Entity])
      [] route = "GET /users/:id" -> Wrapped("user", Entity)
      [] route = "GET /users/groups" -> Wrapped("groups", [elements |-> Entity])
      [] route = "GET /users/groups/:id" -> Wrapped("group", Entity)
      [] route = "GET /apps" -> Wrapped("apps", [elements |-> AppSchema])
      [] route = "GET /apps/:id" -> AppSchema
      [] route = "GET /locations" -> Wrapped("locations", [elements |-> Entity])
      [] route = "GET /profiles" -> Wrapped("profiles", [elements |-> Entity])
      [] route \in {"GET /locations/:id", "GET /profiles/:id"} -> Entity
      [] route \in {"POST /devices/:udid/restart", "POST /devices/:udid/wipe",
                    "PUT /devices/:udid/owner", "PUT /devices/:udid/migrate",
                    "POST /devices/:udid/details"} -> responseSchema_message_device
      [] route \in {"PUT /devices/migrate", "PUT /devices/groups/:id", "PUT /users/:id",
                    "PUT /users/groups/:id", "PUT /users/:id/migrate"} -> Acknowledged
      [] OTHER -> [type |-> "no such route"]

\* check(candidate) of the route's validator
Check(route, candidate) == JTDValid(RouteSchema(route), candidate)

SchemaError(route) == [name |-> "SchemaError", route |-> route]

\* assertValid(routeKey, candidate): TRUE when it returns, FALSE when it throws SchemaError
assertValid(route, candidate) == Check(route, candidate)

(***************************************************************************)
(* Transport adapter: the ky instance of the API constructor.              *)
(***************************************************************************)
\* ky's own default, used when the option is left out
Retry_kyDefault == 1 + 1
\* retry: 0
Retry == 0

RECURSIVE JSONStringify(_)
\* JSON.stringify, read back as the service parses it: an object's undefined
\* members are left out, an array's become null, NaN and the infinities become null
JSONStringify(v) ==
    CASE v.t = "object" ->
            LET kept == {key \in DOMAIN v.o : v.o[key].t # "undefined"}
            IN  JObj([key \in kept |-> JSONStringify(v.o[key])])
      [] v.t = "array" ->
            JArr([i \in 1..Len(v.a) |->
                    IF v.a[i].t = "undefined" THEN JNull ELSE JSONStringify(v.a[i])])
      [] v.t = "number" /\ "n" \in DOMAIN v ->
            IF NumberIsFinite(v.n) THEN v ELSE JNull
      [] OTHER -> v

\* options.json of a ky call, as the request body
RequestBody(json) ==
    IF json.t = "undefined" THEN Undefined ELSE JSONStringify(json)

Path(tpl) == [tpl |-> tpl]
PathId(tpl, id) == [tpl |-> tpl, id |-> id]
PathUdid(tpl, udid) == [tpl |-> tpl, udid |-> udid]

\* this.http.<method>(path, { searchParams, json })
Request(method, path, searchParams, json) ==
    [method |-> method, path |-> path, searchParams |-> searchParams,
     body |-> RequestBody(json)]

NoError == [name |-> "none"]

\* response.ok
ResponseOk(response) == response.status \in 200..299

handlePermissionError(request, response) ==
    IF response.status = 405
    THEN [name |-> "PermissionError", method |-> request.method, endpoint |-> request.path]
    ELSE NoError

\* the hook without its status test: every response is an authentication failure
handleAuthError_always(request, response) == [name |-> "AuthError"]

handleAuthError(request, response) ==
    IF response.status = 401 THEN [name |-> "AuthError"] ELSE NoError

handleNotOk(request, response) ==
    IF ~ResponseOk(response)
    THEN [name |-> "APIError", status |-> response.status, body |-> response.body,
          method |-> request.method, endpoint |-> request.path]
    ELSE NoError

\* hooks.afterResponse, in order: the first hook that throws ends the chain
afterResponse(request, response) ==
    LET e1 == handlePermissionError(request, response)
        e2 == handleAuthError(request, response)
        e3 == handleNotOk(request, response)
    IN  IF e1 # NoError THEN e1
        ELSE IF e2 # NoError THEN e2
        ELSE e3

\* .json() of a response: an empty string for 204 No Content, else the parsed body
ResponseJson(response) ==
    IF response.status = 204 THEN JStr("") ELSE response.body

(***************************************************************************)
(* API surface.  A method is the plan of its call: the assertions it makes *)
(* before the request, the request, the route key it validates the answer  *)
(* against and the member of the answer it returns ("*": the whole).       *)
(***************************************************************************)
Plan(asserts, request, route, returns) ==
    [asserts |-> asserts, request |-> request, route |-> route, returns |-> returns]

All(seq) == \A i \in 1..Len(seq) : seq[i]

getUser(id) ==
    Plan(<<assertValidID(id)>>,
         Request("GET", PathId("users/:id", id), Undefined, Undefined),
         "GET /users/:id", "user")

getUsers ==
    Plan(<<>>, Request("GET", Path("users"), Undefined, Undefined),
         "GET /users", "users")

getUserGroup(id) ==
    Plan(<<assertValidID(id)>>,
         Request("GET", PathId("users/groups/:id", id), Undefined, Undefined),
         "GET /users/groups/:id", "group")

getUserGroups ==
    Plan(<<>>, Request("GET", Path("users/groups"), Undefined, Undefined),
         "GET /users/groups", "groups")

\* validates the answer against the list route
getDevice_listRoute(udid, options) ==
    Plan(<<assertValidUDID(udid)>>,
         Request("GET", PathUdid("devices/:udid", udid),
                 toSearchParams(<<
                    [key |-> "includeApps",
                     val |-> IF options.includeApps = JBool(TRUE)
                             THEN JStr("true") ELSE Undefined]>>),
                 Undefined),
         "GET /devices", "device")

getDevice(udid, options) ==
    Plan(<<assertValidUDID(udid)>>,
         Request("GET", PathUdid("devices/:udid", udid),
                 toSearchParams(<<
                    [key |-> "includeApps",
                     val |-> IF options.includeApps = JBool(TRUE)
                             THEN JStr("true") ELSE Undefined]>>),
                 Undefined),
         "GET /devices/:udid", "device")

RECURSIVE Join(_)
\* ids.join(",")
Join(ids) ==
    IF Len(ids) = 0 THEN ""
    ELSE IF Len(ids) = 1 THEN NumberToString(ids[1])
    ELSE NumberToString(ids[1]) \o "," \o Join(Tail(ids))

\* options.groupIds?.join(",")
OptionalJoin(ids) == IF ids.t = "undefined" THEN Undefined ELSE JStr(Join(ids.ids))

\* the value as given: false is kept
OrUndefined_asGiven(val) == val

\* value || undefined
OrUndefined(val) == IF val = JBool(TRUE) THEN val ELSE Undefined

getDevices(options) ==
    Plan(<<>>,
         Request("GET", Path("devices"),
                 toSearchParams(<<
                    [key |-> "groups", val |-> OptionalJoin(options.groupIds)],
                    [key |-> "ownergroups", val |-> OptionalJoin(options.ownerGroupIds)],
                    [key |-> "hasOwner", val |-> options.isOwned],
                    [key |-> "owner", val |-> options.ownerId],
                    [key |-> "name", val |-> options.ownerName],
                    [key |-> "managed", val |-> options.isManaged],
                    [key |-> "model", val |-> options.modelIdentifier],
                    [key |-> "location", val |-> options.locationId],
                    [key |-> "supervised", val |-> options.isSupervised],
                    [key |-> "inTrash", val |-> options.isTrashed],
                    [key |-> "assettag", val |-> options.assetTag],
                    [key |-> "serialnumber", val |-> options.serialNumber],
                    [key |-> "enrollType", val |-> options.enrollmentType],
                    [key |-> "includeApps", val |-> OrUndefined(options.includeApps)]>>),
                 Undefined),
         "GET /devices", "devices")

getDeviceGroup(id) ==
    Plan(<<assertValidID(id)>>,
         Request("GET", PathId("devices/groups/:id", id), Undefined, Undefined),
         "GET /devices/groups/:id", "deviceGroup")

getDeviceGroups ==
    Plan(<<>>, Request("GET", Path("devices/groups"), Undefined, Undefined),
         "GET /devices/groups", "deviceGroups")

updateDeviceGroup(id, json) ==
    Plan(<<assertValidID(id)>>,
         Request("PUT", PathId("devices/groups/:id", id), Undefined, json),
         "PUT /devices/groups/:id", "*")

restartDevice(udid, options) ==
    Plan(<<assertValidUDID(udid)>>,
         Request("POST", PathUdid("devices/:udid/restart", udid), Undefined, options),
         "POST /devices/:udid/restart", "*")

wipeDevice(udid, options) ==
    Plan(<<assertValidUDID(udid)>>,
         Request("POST", PathUdid("devices/:udid/wipe", udid), Undefined, options),
         "POST /devices/:udid/wipe", "*")

\* the user ID is sent unchecked
setDeviceOwner_uncheckedUser(udid, userId) ==
    Plan(<<assertValidUDID(udid)>>,
         Request("PUT", PathUdid("devices/:udid/owner", udid), Undefined,
                 JObj([user |-> JNum(userId)])),
         "PUT /devices/:udid/owner", "*")

setDeviceOwner(udid, userId) ==
    Plan(<<assertValidUDID(udid), assertValidID(userId)>>,
         Request("PUT", PathUdid("devices/:udid/owner", udid), Undefined,
                 JObj([user |-> JNum(userId)])),
         "PUT /devices/:udid/owner", "*")

\* options?.onlyDevice
OptionOf(options, key) ==
    IF options.t = "undefined" \/ key \notin DOMAIN options.o
    THEN Undefined ELSE options.o[key]

\* the flag defaulted to false instead of left undefined
moveDevice_defaultFalse(udid, locationId, options) ==
    Plan(<<assertValidUDID(udid), assertValidID(locationId)>>,
         Request("PUT", PathUdid("devices/:udid/migrate", udid), Undefined,
                 JObj([locationId |-> JNum(locationId),
                       onlyDevice |-> IF OptionOf(options, "onlyDevice") = Undefined
                                      THEN JBool(FALSE)
                                      ELSE OptionOf(options, "onlyDevice")])),
         "PUT /devices/:udid/migrate", "*")

moveDevice(udid, locationId, options) ==
    Plan(<<assertValidUDID(udid), assertValidID(locationId)>>,
         Request("PUT", PathUdid("devices/:udid/migrate", udid), Undefined,
                 JObj([locationId |-> JNum(locationId),
                       onlyDevice |-> OptionOf(options, "onlyDevice")])),
         "PUT /devices/:udid/migrate", "*")

UdidArray(devices) == JArr([i \in 1..Len(devices) |-> JChars(devices[i])])

\* the upper bound on the array forgotten
moveDevices_noUpperBound(devices, locationId, options) ==
    Plan(<<assertValidID(locationId),
           Len(devices) > 0,
           \A i \in 1..Len(devices) : assertValidUDID(devices[i])>>,
         Request("PUT", Path("devices/migrate"), Undefined,
                 JObj([locationId |-> JNum(locationId),
                       udids |-> UdidArray(devices),
                       onlyDevice |-> OptionOf(options, "onlyDevice")])),
         "PUT /devices/migrate", "*")

Reverse(seq) == [i \in 1..Len(seq) |-> seq[Len(seq) + 1 - i]]

\* the UDIDs sent in another order than given
moveDevices_reordered(devices, locationId, options) ==
    Plan(<<assertValidID(locationId),
           Len(devices) > 0,
           Len(devices) <= 20,
           \A i \in 1..Len(devices) : assertValidUDID(devices[i])>>,
         Request("PUT", Path("devices/migrate"), Undefined,
                 JObj([locationId |-> JNum(locationId),
                       udids |-> UdidArray(Reverse(devices)),
                       onlyDevice |-> OptionOf(options, "onlyDevice")])),
         "PUT /devices/migrate", "*")

moveDevices(devices, locationId, options) ==
    Plan(<<assertValidID(locationId),
           Len(devices) > 0,
           Len(devices) <= 20,
           \A i \in 1..Len(devices) : assertValidUDID(devices[i])>>,
         Request("PUT", Path("devices/migrate"), Undefined,
                 JObj([locationId |-> JNum(locationId),
                       udids |-> UdidArray(devices),
                       onlyDevice |-> OptionOf(options, "onlyDevice")])),
         "PUT /devices/migrate", "*")

\* data.<key>?.forEach((id) => assertValidID(id)); onlyNumbers: the typeof test of memberOf
AssertEachID(json, key, onlyNumbers) ==
    \/ key \notin DOMAIN json.o
    \/ json.o[key].t # "array"
    \/ \A i \in 1..Len(json.o[key].a) :
            LET id == json.o[key].a[i]
            IN  IF id.t = "number" THEN assertValidID(id.n) ELSE onlyNumbers

updateUser(id, json) ==
    Plan(<<assertValidID(id),
           AssertEachID(json, "teacher", FALSE),
           AssertEachID(json, "children", FALSE),
           AssertEachID(json, "memberOf", TRUE)>>,
         Request("PUT", PathId("users/:id", id), Undefined, json),
         "PUT /users/:id", "*")

updateUserGroup(id, json) ==
    Plan(<<assertValidID(id)>>,
         Request("PUT", PathId("users/groups/:id", id), Undefined, json),
         "PUT /users/groups/:id", "*")

updateDevice(udid, json) ==
    Plan(<<assertValidUDID(udid)>>,
         Request("POST", PathUdid("devices/:udid/details", udid), Undefined, json),
         "POST /devices/:udid/details", "*")

moveUser(userId, locationId, options) ==
    Plan(<<assertValidID(userId), assertValidID(locationId)>>,
         Request("PUT", PathId("users/:id/migrate", userId), Undefined,
                 JObj([locationId |-> JNum(locationId),
                       onlyUser |-> OptionOf(options, "onlyUser")])),
         "PUT /users/:id/migrate", "*")

getApps ==
    Plan(<<>>, Request("GET", Path("apps"), Undefined, Undefined), "GET /apps", "apps")

getApp(id) ==
    Plan(<<assertValidID(id)>>,
         Request("GET", PathId("apps/:id", id), Undefined, Undefined),
         "GET /apps/:id", "*")

getLocations ==
    Plan(<<>>, Request("GET", Path("locations"), Undefined, Undefined),
         "GET /locations", "locations")

getLocation(id) ==
    Plan(<<assertValidID(id)>>,
         Request("GET", PathId("locations/:id", id), Undefined, Undefined),
         "GET /locations/:id", "*")

getProfile(id) ==
    Plan(<<assertValidID(id)>>,
         Request("GET", PathId("profiles/:id", id), Undefined, Undefined),
         "GET /profiles/:id", "*")

getProfiles ==
    Plan(<<>>, Request("GET", Path("profiles"), Undefined, Undefined),
         "GET /profiles", "profiles")

\* the plan of an API call [method, args]
ApiPlan(call) ==
    LET a == call.args
    IN  CASE call.method = "getUser" -> getUser(a.id)
          [] call.method = "getUsers" -> getUsers
          [] call.method = "getUserGroup" -> getUserGroup(a.id)
          [] call.method = "getUserGroups" -> getUserGroups
          [] call.method = "getDevice" -> getDevice(a.udid, a.options)
          [] call.method = "getDevices" -> getDevices(a.options)
          [] call.method = "getDeviceGroup" -> getDeviceGroup(a.id)
          [] call.method = "getDeviceGroups" -> getDeviceGroups
          [] call.method = "updateDeviceGroup" -> updateDeviceGroup(a.id, a.json)
          [] call.method = "restartDevice" -> restartDevice(a.udid, a.options)
          [] call.method = "wipeDevice" -> wipeDevice(a.udid, a.options)
          [] call.method = "setDeviceOwner" -> setDeviceOwner(a.udid, a.userId)
          [] call.method = "moveDevice" -> moveDevice(a.udid, a.locationId, a.options)
          [] call.method = "moveDevices" -> moveDevices(a.devices, a.locationId, a.options)
          [] call.method = "updateUser" -> updateUser(a.id, a.json)
          [] call.method = "updateUserGroup" -> updateUserGroup(a.id, a.json)
          [] call.method = "updateDevice" -> updateDevice(a.udid, a.json)
          [] call.method = "moveUser" -> moveUser(a.userId, a.locationId, a.options)
          [] call.method = "getApps" -> getApps
          [] call.method = "getApp" -> getApp(a.id)
          [] call.method = "getLocations" -> getLocations
          [] call.method = "getLocation" -> getLocation(a.id)
          [] call.method = "getProfile" -> getProfile(a.id)
          [] OTHER -> getProfiles

\* data.<member>, undefined when there is no such member
Member(json, member) ==
    IF member = "*" THEN json
    ELSE IF json.t = "object" /\ member \in DOMAIN json.o THEN json.o[member]
    ELSE Undefined

Fulfilled(value) == [state |-> "fulfilled", value |-> value]
Rejected(error) == [state |-> "rejected", error |-> error]
Pending == [state |-> "pending"]

AssertionError == [name |-> "AssertionError"]

\* what an API method does with the answer: .json(), assertValid, return
ApiReturn(plan, response) ==
    LET json == ResponseJson(response)
    IN  IF assertValid(plan.route, json)
        THEN Fulfilled(Member(json, plan.returns))
        ELSE Rejected(SchemaError(plan.route))

(***************************************************************************)
(* Device (internal/device.ts).  A method is a function of the snapshot,   *)
(* its argument and the result of the API call it awaits: Pending before   *)
(* the call, and the settled promise after it.  It answers with the API    *)
(* call to await or with its own settlement, and with the snapshot it      *)
(* leaves.                                                                 *)
(***************************************************************************)
Await(call, d) == [do |-> "await", call |-> call, data |-> d]
Settle(result, d) == [do |-> "settle", outcome |-> result, data |-> d]
\* await Promise.all(calls)
AwaitAll(calls, d) == [do |-> "awaitAll", calls |-> calls, data |-> d]

ApiCall(method, args) == [layer |-> "api", method |-> method, args |-> args]

\* the promise of an async method whose body only awaits the call
Void(result) ==
    IF result.state = "fulfilled" THEN Fulfilled(Undefined) ELSE result

\* getDevices' options, none given
NoOptions ==
    [groupIds |-> Undefined, ownerGroupIds |-> Undefined, isOwned |-> Undefined,
     ownerId |-> Undefined, ownerName |-> Undefined, isManaged |-> Undefined,
     modelIdentifier |-> Undefined, locationId |-> Undefined,
     isSupervised |-> Undefined, isTrashed |-> Undefined, assetTag |-> Undefined,
     serialNumber |-> Undefined, enrollmentType |-> Undefined,
     includeApps |-> Undefined]

\* the length test dropped: the first device of a non-empty answer is taken
Device_update_first(d, arg, result) ==
    IF result = Pending
    THEN Await(ApiCall("getDevices",
                 [options |-> [NoOptions EXCEPT !.serialNumber = d.o.serialNumber]]), d)
    ELSE IF result.state = "rejected" THEN Settle(result, d)
    ELSE IF result.value.t # "array" \/ Len(result.value.a) < 1
    THEN Settle(Rejected([name |-> "Error"]), d)
    ELSE Settle(Fulfilled(Undefined), result.value.a[1])

\* copies two members of the record received into the record held
Device_update_patching(d, arg, result) ==
    IF result = Pending
    THEN Await(ApiCall("getDevices",
                 [options |-> [NoOptions EXCEPT !.serialNumber = d.o.serialNumber]]), d)
    ELSE IF result.state = "rejected" THEN Settle(result, d)
    ELSE IF result.value.t # "array" \/ Len(result.value.a) # 1
    THEN Settle(Rejected([name |-> "Error"]), d)
    ELSE Settle(Fulfilled(Undefined),
                [d EXCEPT !.o.assetTag = result.value.a[1].o.assetTag,
                          !.o.owner = result.value.a[1].o.owner])

Device_update(d, arg, result) ==
    IF result = Pending
    THEN Await(ApiCall("getDevices",
                 [options |-> [NoOptions EXCEPT !.serialNumber = d.o.serialNumber]]), d)
    ELSE IF result.state = "rejected" THEN Settle(result, d)
    ELSE IF result.value.t # "array" \/ Len(result.value.a) # 1
    THEN Settle(Rejected([name |-> "Error"]), d)
    ELSE Settle(Fulfilled(Undefined), result.value.a[1])

\* the assertion dropped: id 0 is written like any other id
Device_setOwner_unguarded(d, user, result) ==
    IF result = Pending
    THEN IF ~StrictEq(d.o.owner.o.id.n, user.id)
         THEN Await(ApiCall("setDeviceOwner",
                      [udid |-> d.o.UDID.c, userId |-> user.id]), d)
         ELSE Settle(Fulfilled(Undefined), d)
    ELSE Settle(Void(result), d)

Device_setOwner(d, user, result) ==
    IF result = Pending
    THEN IF StrictEq(user.id, Num(0))
         THEN Settle(Rejected(AssertionError), d)
         ELSE IF ~StrictEq(d.o.owner.o.id.n, user.id)
         THEN Await(ApiCall("setDeviceOwner",
                      [udid |-> d.o.UDID.c, userId |-> user.id]), d)
         ELSE Settle(Fulfilled(Undefined), d)
    ELSE Settle(Void(result), d)

\* the test of the current owner dropped: the owner is always written
Device_removeOwner_always(d, arg, result) ==
    IF result = Pending
    THEN Await(ApiCall("setDeviceOwner",
                 [udid |-> d.o.UDID.c, userId |-> Num(0)]), d)
    ELSE Settle(Void(result), d)

Device_removeOwner(d, arg, result) ==
    IF result = Pending
    THEN IF ~StrictEq(d.o.owner.o.id.n, Num(0))
         THEN Await(ApiCall("setDeviceOwner",
                      [udid |-> d.o.UDID.c, userId |-> Num(0)]), d)
         ELSE Settle(Fulfilled(Undefined), d)
    ELSE Settle(Void(result), d)

\* the setter writes the new tag into its own snapshot once the service accepted it
Device_setAssetTag_patching(d, text, result) ==
    IF result = Pending
    THEN IF d.o.assetTag.s # text
         THEN Await(ApiCall("updateDevice",
                      [udid |-> d.o.UDID.c, json |-> JObj([assetTag |-> JStr(text)])]), d)
         ELSE Settle(Fulfilled(Undefined), d)
    ELSE IF result.state = "fulfilled"
         THEN Settle(Fulfilled(Undefined), [d EXCEPT !.o.assetTag = JStr(text)])
         ELSE Settle(result, d)

Device_setAssetTag(d, text, result) ==
    IF result = Pending
    THEN IF d.o.assetTag.s # text
         THEN Await(ApiCall("updateDevice",
                      [udid |-> d.o.UDID.c, json |-> JObj([assetTag |-> JStr(text)])]), d)
         ELSE Settle(Fulfilled(Undefined), d)
    ELSE Settle(Void(result), d)

\* the comparison with the snapshot dropped: the write is always made
Device_setNotes_always(d, text, result) ==
    IF result = Pending
    THEN Await(ApiCall("updateDevice",
                 [udid |-> d.o.UDID.c, json |-> JObj([notes |-> JStr(text)])]), d)
    ELSE Settle(Void(result), d)

Device_setNotes(d, text, result) ==
    IF result = Pending
    THEN IF d.o.notes.s # text
         THEN Await(ApiCall("updateDevice",
                      [udid |-> d.o.UDID.c, json |-> JObj([notes |-> JStr(text)])]), d)
         ELSE Settle(Fulfilled(Undefined), d)
    ELSE Settle(Void(result), d)

Device_setLocation(d, location, result) ==
    IF result = Pending
    THEN IF ~StrictEq(d.o.locationId.n, location.id)
         THEN Await(ApiCall("moveDevice",
                      [udid |-> d.o.UDID.c, locationId |-> location.id,
                       options |-> Undefined]), d)
         ELSE Settle(Fulfilled(Undefined), d)
    ELSE Settle(Void(result), d)

\* \d
IsDigit(ch) == ch \in {"0", "1", "2", "3", "4", "5", "6", "7", "8", "9"}
AllDigits(str) == \A i \in 1..Len(str) : IsDigit(str[i])

\* the repetition counts of coords: \d{1,3} and \d{1,15}
MaxIntegerDigits == 3
MaxFractionDigits == 15

\* str without the sign [+-]? takes
Unsigned(str) ==
    IF Len(str) > 0 /\ str[1] \in {"+", "-"} THEN Tail(str) ELSE str

\* the whole of str matches [+-]?\d{1,3}(?:\.\d{1,15})?
MatchesNumber(str) ==
    LET body == Unsigned(str)
        dots == {i \in 1..Len(body) : body[i] = "."}
    IN  IF dots = {}
        THEN Len(body) \in 1..MaxIntegerDigits /\ AllDigits(body)
        ELSE /\ Cardinality(dots) = 1
             /\ LET k == CHOOSE i \in dots : TRUE
                     int == SubSeq(body, 1, k - 1)
                     frac == SubSeq(body, k + 1, Len(body))
                 IN  /\ Len(int) \in 1..MaxIntegerDigits
                     /\ AllDigits(int)
                     /\ Len(frac) \in 1..MaxFractionDigits
                     /\ AllDigits(frac)

\* the result of str.match(coords): the two captured groups, or null
NoMatch == [groups |-> <<>>]
coords(str) ==
    LET commas == {i \in 1..Len(str) : str[i] = ","}
    IN  IF Cardinality(commas) # 1 THEN NoMatch
        ELSE LET k == CHOOSE i \in commas : TRUE
                 g1 == SubSeq(str, 1, k - 1)
                 g2 == SubSeq(str, k + 1, Len(str))
             IN  IF MatchesNumber(g1) /\ MatchesNumber(g2)
                 THEN [groups |-> <<g1, g2>>]
                 ELSE NoMatch

DigitValue(ch) ==
    CASE ch = "0" -> 0 [] ch = "1" -> 1 [] ch = "2" -> 2 [] ch = "3" -> 3
      [] ch = "4" -> 4 [] ch = "5" -> 5 [] ch = "6" -> 6 [] ch = "7" -> 7
      [] ch = "8" -> 8 [] OTHER -> 9

RECURSIVE IntegerOf(_)
\* the value of a string of digits
IntegerOf(digits) ==
    IF digits = <<>> THEN 0
    ELSE 10 * IntegerOf(SubSeq(digits, 1, Len(digits) - 1))
         + DigitValue(digits[Len(digits)])

RECURSIVE FractionOf(_)
\* the digits after the point that count: trailing zeros add nothing
FractionOf(digits) ==
    IF digits = <<>> THEN <<>>
    ELSE IF digits[Len(digits)] = "0"
    THEN FractionOf(SubSeq(digits, 1, Len(digits) - 1))
    ELSE [i \in 1..Len(digits) |-> DigitValue(digits[i])]

\* parseFloat of a string that matches the number pattern of coords: the
\* number as its sign, its integer part and its fraction digits.  (Within
\* fifteen significant digits distinct decimals are distinct doubles.)
parseFloat(str) ==
    LET body == Unsigned(str)
        dots == {i \in 1..Len(body) : body[i] = "."}
        k == IF dots = {} THEN Len(body) + 1 ELSE CHOOSE i \in dots : TRUE
    IN  [neg |-> str[1] = "-",
         int |-> IntegerOf(SubSeq(body, 1, k - 1)),
         frac |-> FractionOf(SubSeq(body, k + 1, Len(body)))]

\* the getter's assertion dropped: a coordinate string that does not match
\* is read as no region
Device_getRegion_lenient(d, arg, result) ==
    LET region == d.o.region.o
        match == IF "coordinates" \in DOMAIN region
                 THEN coords(region.coordinates.c) ELSE NoMatch
    IN  IF region.string = JStr("") \/ match = NoMatch
        THEN Settle(Fulfilled(JNull), d)
        ELSE Settle(Fulfilled([name |-> region.string,
                               latitude |-> parseFloat(match.groups[1]),
                               longitude |-> parseFloat(match.groups[2])]), d)

\* a getter: it returns (fulfilled) or throws (rejected) at once
Device_getRegion(d, arg, result) ==
    LET region == d.o.region.o
        match == IF "coordinates" \in DOMAIN region
                 THEN coords(region.coordinates.c) ELSE NoMatch
    IN  IF region.string = JStr("")
        THEN Settle(Fulfilled(JNull), d)
        ELSE IF match = NoMatch
        THEN Settle(Rejected(AssertionError), d)
        ELSE Settle(Fulfilled([name |-> region.string,
                               latitude |-> parseFloat(match.groups[1]),
                               longitude |-> parseFloat(match.groups[2])]), d)

\* this.#client.create<Type>(raw): the domain object that wraps the record
Created(type, raw) == [t |-> type, data |-> raw]

\* suppressAPIError(value, e): the value in place of a failure of the remote
\* call (AuthError, PermissionError, APIError), any other error thrown again
suppressAPIError(value, e) ==
    IF e.name \in {"AuthError", "PermissionError", "APIError"}
    THEN Fulfilled(value)
    ELSE Rejected(e)

\* records.map((raw) => this.#client.create<Type>(raw))
CreatedEach(type, records) ==
    [i \in 1..Len(records) |-> Created(type, records[i])]

\* new Set(array)
SetOf(array) == {array[i] : i \in 1..Len(array)}

\* the try block dropped: a failure of getUser is the traversal's failure
Device_getOwner_propagating(d, arg, result) ==
    IF result = Pending
    THEN IF StrictEq(d.o.owner.o.id.n, Num(0))
         THEN Settle(Fulfilled(JNull), d)
         ELSE Await(ApiCall("getUser", [id |-> d.o.owner.o.id.n]), d)
    ELSE IF result.state = "rejected"
    THEN Settle(result, d)
    ELSE Settle(Fulfilled(Created("User", result.value)), d)

Device_getOwner(d, arg, result) ==
    IF result = Pending
    THEN IF StrictEq(d.o.owner.o.id.n, Num(0))
         THEN Settle(Fulfilled(JNull), d)
         ELSE Await(ApiCall("getUser", [id |-> d.o.owner.o.id.n]), d)
    ELSE IF result.state = "rejected"
    THEN Settle(suppressAPIError(JNull, result.error), d)
    ELSE Settle(Fulfilled(Created("User", result.value)), d)

\* every error caught: any failure of getDeviceGroups gives the empty array
Device_getGroups_catchAll(d, arg, result) ==
    IF result = Pending
    THEN Await(ApiCall("getDeviceGroups", [none |-> TRUE]), d)
    ELSE IF result.state = "rejected"
    THEN Settle(Fulfilled(JArr(<<>>)), d)
    ELSE LET groups == SetOf(d.o.groups.a)
             has(group) == Member(group, "name") \in groups
         IN  Settle(Fulfilled(JArr(CreatedEach("DeviceGroup", SelectSeq(result.value.a, has)))), d)

Device_getGroups(d, arg, result) ==
    IF result = Pending
    THEN Await(ApiCall("getDeviceGroups", [none |-> TRUE]), d)
    ELSE IF result.state = "rejected"
    THEN Settle(suppressAPIError(JArr(<<>>), result.error), d)
    ELSE LET groups == SetOf(d.o.groups.a)
             has(group) == Member(group, "name") \in groups
         IN  Settle(Fulfilled(JArr(CreatedEach("DeviceGroup", SelectSeq(result.value.a, has)))), d)

\* a detail record without apps read as a device with no apps installed
Device_getApps_lenient(d, arg, result) ==
    IF result = Pending
    THEN AwaitAll(<<ApiCall("getApps", [none |-> TRUE]),
                    ApiCall("getDevice", [udid |-> d.o.UDID.c,
                                          options |-> [includeApps |-> JBool(TRUE)]])>>, d)
    ELSE IF result.state = "rejected"
    THEN Settle(suppressAPIError(JArr(<<>>), result.error), d)
    ELSE LET apps == result.value.a[1]
             myAppData == result.value.a[2]
             installed == IF "apps" \in DOMAIN myAppData.o
                          THEN myAppData.o.apps.a ELSE <<>>
             myAppIdentifiers == {Member(app, "identifier") : app \in SetOf(installed)}
             has(app) == Member(app, "bundleId") \in myAppIdentifiers
         IN  Settle(Fulfilled(JArr(CreatedEach("App", SelectSeq(apps.a, has)))), d)

Device_getApps(d, arg, result) ==
    IF result = Pending
    THEN AwaitAll(<<ApiCall("getApps", [none |-> TRUE]),
                    ApiCall("getDevice", [udid |-> d.o.UDID.c,
                                          options |-> [includeApps |-> JBool(TRUE)]])>>, d)
    ELSE IF result.state = "rejected"
    THEN Settle(suppressAPIError(JArr(<<>>), result.error), d)
    ELSE LET apps == result.value.a[1]
             myAppData == result.value.a[2]
         IN  IF "apps" \notin DOMAIN myAppData.o
             THEN Settle(Rejected([name |-> "Error"]), d)
             ELSE LET myAppIdentifiers ==
                          {Member(app, "identifier") : app \in SetOf(myAppData.o.apps.a)}
                      has(app) == Member(app, "bundleId") \in myAppIdentifiers
                  IN  Settle(Fulfilled(JArr(CreatedEach("App", SelectSeq(apps.a, has)))), d)

Device_getLocation(d, arg, result) ==
    IF result = Pending
    THEN Await(ApiCall("getLocation", [id |-> d.o.locationId.n]), d)
    ELSE IF result.state = "rejected"
    THEN Settle(suppressAPIError(JNull, result.error), d)
    ELSE Settle(Fulfilled(Created("Location", result.value)), d)

\* one step of a Device method call [method, args]
DeviceStep(call, d, result) ==
    CASE call.method = "update" -> Device_update(d, call.args, result)
      [] call.method = "getRegion" -> Device_getRegion(d, call.args, result)
      [] call.method = "getOwner" -> Device_getOwner(d, call.args, result)
      [] call.method = "getGroups" -> Device_getGroups(d, call.args, result)
      [] call.method = "getApps" -> Device_getApps(d, call.args, result)
      [] call.method = "getLocation" -> Device_getLocation(d, call.args, result)
      [] call.method = "setOwner" -> Device_setOwner(d, call.args.user, result)
      [] call.method = "removeOwner" -> Device_removeOwner(d, call.args, result)
      [] call.method = "setAssetTag" -> Device_setAssetTag(d, call.args.text, result)
      [] call.method = "setNotes" -> Device_setNotes(d, call.args.text, result)
      [] OTHER -> Device_setLocation(d, call.args.location, result)

(***************************************************************************)
(* App (internal/app.ts), in the same form.                                *)
(***************************************************************************)
\* Array.isArray(device.apps)
HasAppArray(device) == Member(device, "apps").t = "array"

\* compares the bundle id with the first embedded app entry only
App_getDevices_firstEntry(d, arg, result) ==
    IF result = Pending
    THEN Await(ApiCall("getDevices",
                 [options |-> [NoOptions EXCEPT !.includeApps = JBool(TRUE)]]), d)
    ELSE IF result.state = "rejected"
    THEN Settle(suppressAPIError(JArr(<<>>), result.error), d)
    ELSE LET devices == result.value.a
             installed(device) ==
                 /\ Len(device.o.apps.a) > 0
                 /\ Member(device.o.apps.a[1], "identifier") = d.o.bundleId
         IN  IF \E i \in 1..Len(devices) : ~HasAppArray(devices[i])
             THEN Settle(Rejected(AssertionError), d)
             ELSE Settle(Fulfilled(JArr(CreatedEach("Device", SelectSeq(devices, installed)))), d)

App_getDevices(d, arg, result) ==
    IF result = Pending
    THEN Await(ApiCall("getDevices",
                 [options |-> [NoOptions EXCEPT !.includeApps = JBool(TRUE)]]), d)
    ELSE IF result.state = "rejected"
    THEN Settle(suppressAPIError(JArr(<<>>), result.error), d)
    ELSE LET devices == result.value.a
             installed(device) ==
                 \E app \in SetOf(device.o.apps.a) :
                    Member(app, "identifier") = d.o.bundleId
         IN  IF \E i \in 1..Len(devices) : ~HasAppArray(devices[i])
             THEN Settle(Rejected(AssertionError), d)
             ELSE Settle(Fulfilled(JArr(CreatedEach("Device", SelectSeq(devices, installed)))), d)

App_getLocation(d, arg, result) ==
    IF result = Pending
    THEN Await(ApiCall("getLocation", [id |-> d.o.locationId.n]), d)
    ELSE IF result.state = "rejected"
    THEN Settle(suppressAPIError(JNull, result.error), d)
    ELSE Settle(Fulfilled(Created("Location", result.value)), d)

App_update(d, arg, result) ==
    IF result = Pending
    THEN Await(ApiCall("getApp", [id |-> d.o.id.n]), d)
    ELSE IF result.state = "rejected" THEN Settle(result, d)
    ELSE Settle(Fulfilled(Undefined), result.value)

\* one step of an App method call [method, args]
AppStep(call, d, result) ==
    CASE call.method = "getDevices" -> App_getDevices(d, call.args, result)
      [] call.method = "getLocation" -> App_getLocation(d, call.args, result)
      [] OTHER -> App_update(d, call.args, result)

\* a direct call of an API method awaits that one call and settles as it does
Step(call, d, result) ==
    IF call.layer = "api"
    THEN (IF result = Pending THEN Await(call, d) ELSE Settle(result, d))
    ELSE IF call.layer = "app" THEN AppStep(call, d, result)
    ELSE DeviceStep(call, d, result)

(***************************************************************************)
(* The inputs the caller and the service are drawn from.                   *)
(***************************************************************************)
OnePointFive == Finite(FALSE, 0, 1, 5)

IdSamples ==
    {Num(0), Num(7), Neg(1), OnePointFive, NaN, Infinity, MAX_SAFE_INTEGER, TwoPow53}

c0FFee == <<"c", "0", "F", "F", "e", "e">>
Dash == <<"-">>
UdidSamples == {c0FFee, Dash, <<>>, <<"g">>, <<"a", "b", " ">>}

\* the options of a move: none, empty, the flag set and the flag cleared
MoveOptions(key) ==
    {Undefined, JObj(NoProperties),
     JObj(key :> JBool(TRUE)), JObj(key :> JBool(FALSE))}

\* n times "-", and the same with one end replaced
Fill(n) == [i \in 1..n |-> Dash]
DeviceArrays ==
    {Fill(n) : n \in 0..MaxArrayLen}
    \cup {[Fill(n) EXCEPT ![p] = w] :
            <<n, p>> \in {<<m, q>> \in (1..MaxArrayLen) \X (1..MaxArrayLen) : q \in {1, m}},
            w \in UdidSamples}

IdList(ids) == [t |-> "array", ids |-> ids]

GetDevicesOptions ==
    {NoOptions}
    \cup {[NoOptions EXCEPT !.ownerId = JNum(id)] : id \in IdSamples}
    \cup {[NoOptions EXCEPT !.locationId = JNum(id)] : id \in IdSamples}
    \cup {[NoOptions EXCEPT !.groupIds = IdList(ids)] :
            ids \in {<<Num(7)>>, <<Num(0), Num(7)>>, <<Num(7), Neg(1)>>, <<>>}}
    \cup {[NoOptions EXCEPT !.ownerGroupIds = IdList(ids)] :
            ids \in {<<Num(7)>>, <<NaN, Num(7)>>}}
    \cup {[NoOptions EXCEPT !.includeApps = JBool(b)] : b \in BOOLEAN}
    \cup {[NoOptions EXCEPT !.isManaged = JBool(b), !.serialNumber = JStr("SN-A")] :
            b \in BOOLEAN}

UserData ==
    {JObj([firstName |-> JStr("Ada")]),
     JObj([teacher |-> JArr(<<JNum(Num(7))>>), children |-> JArr(<<JNum(Num(0))>>)]),
     JObj([teacher |-> JArr(<<JNum(Neg(1))>>)]),
     JObj([children |-> JArr(<<JNum(Num(7)), JNum(NaN)>>)]),
     JObj([memberOf |-> JArr(<<JNum(Num(7)), JStr("Staff")>>)]),
     JObj([memberOf |-> JArr(<<JStr("Staff"), JNum(OnePointFive)>>)])}

GroupData == {JObj([name |-> JStr("IT Devices")])}
DeviceDetails == {JObj([assetTag |-> JStr("tag-2")]), JObj([notes |-> JStr("lost")])}
CommandOptions == {Undefined, JObj([clearPasscode |-> JBool(TRUE)])}

ApiCalls ==
    {ApiCall(m, [id |-> id]) :
        m \in {"getUser", "getUserGroup", "getDeviceGroup", "getApp", "getLocation",
               "getProfile"},
        id \in IdSamples}
    \cup {ApiCall(m, [none |-> TRUE]) :
        m \in {"getUsers", "getUserGroups", "getDeviceGroups", "getApps",
               "getLocations", "getProfiles"}}
    \cup {ApiCall("getDevice", [udid |-> u, options |-> [includeApps |-> i]]) :
        u \in UdidSamples, i \in {Undefined, JBool(TRUE), JBool(FALSE)}}
    \cup {ApiCall("getDevices", [options |-> o]) : o \in GetDevicesOptions}
    \cup {ApiCall(m, [id |-> id, json |-> j]) :
        m \in {"updateDeviceGroup", "updateUserGroup"}, id \in IdSamples, j \in GroupData}
    \cup {ApiCall(m, [udid |-> u, options |-> o]) :
        m \in {"restartDevice", "wipeDevice"}, u \in UdidSamples, o \in CommandOptions}
    \cup {ApiCall("setDeviceOwner", [udid |-> u, userId |-> id]) :
        u \in UdidSamples, id \in IdSamples}
    \cup {ApiCall("moveDevice", [udid |-> u, locationId |-> id, options |-> o]) :
        u \in UdidSamples, id \in IdSamples, o \in MoveOptions("onlyDevice")}
    \cup {ApiCall("moveDevices", [devices |-> a, locationId |-> id, options |-> o]) :
        a \in DeviceArrays, id \in IdSamples, o \in MoveOptions("onlyDevice")}
    \cup {ApiCall("updateUser", [id |-> id, json |-> j]) :
        id \in IdSamples, j \in UserData}
    \cup {ApiCall("updateDevice", [udid |-> u, json |-> j]) :
        u \in UdidSamples, j \in DeviceDetails}
    \cup {ApiCall("moveUser", [userId |-> u, locationId |-> id, options |-> o]) :
        u \in IdSamples, id \in IdSamples, o \in MoveOptions("onlyUser")}

\* a device record as GET /devices lists it
DeviceRecord(udid, serialNumber, locationId, ownerId, assetTag, notes) ==
    JObj([
        UDID |-> JChars(udid),
        locationId |-> JNum(locationId),
        serialNumber |-> JStr(serialNumber),
        name |-> JStr("iPad"),
        isManaged |-> JBool(TRUE),
        isSupervised |-> JBool(TRUE),
        class |-> JStr("ipad"),
        assetTag |-> JStr(assetTag),
        os |-> JObj([prefix |-> JStr("iOS"), version |-> JStr("15.1")]),
        model |-> JObj([name |-> JStr("iPad 9"), identifier |-> JStr("iPad12,1"),
                        type |-> JStr("iPad")]),
        owner |-> JObj([id |-> JNum(ownerId), locationId |-> JNum(locationId),
                        name |-> JStr(IF IsZero(ownerId) THEN "" ELSE "Ada"),
                        vpp |-> JArr(<<>>)]),
        groups |-> JArr(<<JStr("IT Devices")>>),
        enrollType |-> JStr("dep"),
        batteryLevel |-> JNum(OnePointFive),
        totalCapacity |-> JNum(Num(32)),
        availableCapacity |-> JNum(Num(7)),
        iCloudBackupEnabled |-> JBool(FALSE),
        iCloudBackupLatest |-> JStr(""),
        iTunesStoreLoggedIn |-> JBool(FALSE),
        modified |-> JStr("2021-12-01"),
        lastCheckin |-> JStr("2021-12-02"),
        depProfile |-> JStr(""),
        notes |-> JStr(notes),
        region |-> JObj([string |-> JStr("")]),
        networkInformation |-> JObj([
            IPAddress |-> JStr("10.0.0.7"),
            isNetworkTethered |-> JStr("0"),
            BluetoothMAC |-> JStr(""),
            WiFiMAC |-> JStr(""),
            VoiceRoamingEnabled |-> JStr("0"),
            DataRoamingEnabled |-> JStr("0"),
            PersonalHotspotEnabled |-> JStr("0")])])

DeviceA == DeviceRecord(c0FFee, "SN-A", Num(7), Num(7), "tag", "")
\* the same device after the service applied writes to it
DeviceA2 == DeviceRecord(c0FFee, "SN-A", Num(0), Num(0), "tag-2", "lost")
DeviceB == DeviceRecord(Dash, "SN-B", Num(0), Num(0), "", "lost")
\* a record the schema accepts whose location and owner ids are no valid IDs
DeviceC == DeviceRecord(c0FFee, "SN-A", Neg(1), Neg(1), "tag", "")

\* an app record as GET /apps lists it
AppRecord(id, bundleId) ==
    JObj([id |-> JNum(id), bundleId |-> JStr(bundleId), name |-> JStr("App"),
          locationId |-> JNum(Num(0)), isBook |-> JBool(FALSE)])

AppX == AppRecord(Num(7), "com.x")
\* the same app after the service changed it, and another app
AppX2 == [AppX EXCEPT !.o.name = JStr("App 2")]
AppY == AppRecord(Num(8), "com.y")
\* a record the schema accepts whose location id is no valid ID
AppZ == [AppX EXCEPT !.o.locationId = JNum(Neg(1))]

\* an entry of a device's list of installed apps
InstalledApp(identifier) ==
    JObj([name |-> JStr("App"), identifier |-> JStr(identifier), version |-> JStr("1.0"),
          vendor |-> JStr(""), icon |-> JStr("")])

\* a record with the list of installed apps added
WithApps(record, identifiers) ==
    JObj(record.o @@
         [apps |-> JArr([i \in 1..Len(identifiers) |-> InstalledApp(identifiers[i])])])

DeviceList(devices) ==
    JObj([code |-> JNum(Num(200)), count |-> JNum(Num(Len(devices))),
          devices |-> JArr(devices)])

EntityRecord == JObj([id |-> JNum(Num(7)), name |-> JStr("seven")])
WrappedBody(field, payload) == JObj((field :> payload) @@ [code |-> JNum(Num(200))])

\* answers that some route's schema accepts
GoodBodies ==
    {DeviceList(<<>>), DeviceList(<<DeviceA2>>), DeviceList(<<DeviceB>>),
     DeviceList(<<DeviceA, DeviceB>>),
     JObj([message |-> JStr("DeviceOwnerSet"), device |-> JChars(c0FFee)]),
     JObj([code |-> JNum(Num(200)), message |-> JStr("MigrationStarted")]),
     EntityRecord, AppX2, AppY, AppZ, DeviceList(<<DeviceC>>),
     DeviceList(<<WithApps(DeviceA, <<"com.x">>), WithApps(DeviceB, <<>>)>>),
     WrappedBody("apps", JArr(<<AppY, AppX>>)),
     WrappedBody("device", WithApps(EntityRecord, <<"com.x">>)),
     WrappedBody("device", WithApps(EntityRecord, <<"com.x", "com.z", "com.y">>)),
     DeviceList(<<WithApps(DeviceB, <<"com.y", "com.x">>), WithApps(DeviceA, <<"com.x">>)>>),
     WrappedBody("deviceGroups",
                 JArr(<<EntityRecord,
                        JObj([id |-> JNum(Num(0)), name |-> JStr("IT Devices")])>>))}
    \cup {WrappedBody(f, EntityRecord) : f \in {"device", "deviceGroup", "user", "group"}}
    \cup {WrappedBody(f, JArr(<<EntityRecord>>)) :
            f \in {"deviceGroups", "users", "groups", "apps", "locations", "profiles"}}

\* answers no schema accepts: a required member missing, a wrong primitive
\* type, an enum value outside the set, a member the schema does not know
BadBodies ==
    {DeviceList(<<JObj([UDID |-> JChars(c0FFee)])>>),
     DeviceList(<<[DeviceA EXCEPT !.o.enrollType = JStr("byod")]>>),
     DeviceList(<<[DeviceA EXCEPT !.o.locationId = JStr("7")]>>),
     JObj([message |-> JNum(Num(7)), device |-> JChars(c0FFee)]),
     JObj([message |-> JStr("ok"), device |-> JChars(c0FFee), extra |-> JNull]),
     JObj([code |-> JStr("200")]),
     JStr("OK"), JNull, JArr(<<>>)}

ErrorBodies == {JStr("Not Found"), JObj([code |-> JNum(Num(404)), message |-> JStr("NotFound")])}

Response(status, body) == [status |-> status, body |-> body]

Responses ==
    {Response(st, b) : st \in {200, 204}, b \in GoodBodies \cup BadBodies}
    \cup {Response(st, b) : st \in {301, 401, 404, 405, 500}, b \in ErrorBodies}

NoInvocation == [layer |-> "none"]
NoReply == Response(0, Undefined)

(***************************************************************************)
(* The state machine: one invocation at a time, suspended at its API call. *)
(***************************************************************************)
Init ==
    /\ pc = "idle"
    /\ invocation = NoInvocation
    /\ awaited = NoInvocation
    /\ wire = <<>>
    /\ reply = NoReply
    /\ outcome = Pending
    /\ data = DeviceA
    /\ appData = AppX
    /\ joined = <<>>
    /\ heap = <<DeviceA, AppX>>
    /\ refs = [device |-> 1, twin |-> 1, app |-> 2, caller |-> 0]
    /\ flights = <<>>

\* the snapshot a call works on, and the assignment of the one it leaves
SnapshotOf(call) == IF call.layer = "app" THEN appData ELSE data
Store(call, d) ==
    /\ data' = IF call.layer = "app" THEN data ELSE d
    /\ appData' = IF call.layer = "app" THEN d ELSE appData

\* an API method called inside Promise.all: its request is out, or its
\* assertion failed and its promise is rejected
Launch(call) ==
    LET plan == ApiPlan(call)
    IN  IF All(plan.asserts)
        THEN [call |-> call, wire |-> <<plan.request>>, reply |-> NoReply,
              result |-> Pending]
        ELSE [call |-> call, wire |-> <<>>, reply |-> NoReply,
              result |-> Rejected(AssertionError)]

\* Promise.all over the members: rejected as its first rejected member,
\* fulfilled with all values once every member is, pending otherwise
PromiseAll(members) ==
    LET rejected == {i \in 1..Len(members) : members[i].result.state = "rejected"}
    IN  IF rejected # {}
        THEN members[CHOOSE i \in rejected : \A j \in rejected : i <= j].result
        ELSE IF \A i \in 1..Len(members) : members[i].result.state = "fulfilled"
        THEN Fulfilled(JArr([i \in 1..Len(members) |-> members[i].result.value]))
        ELSE Pending

\* The caller invokes `call`: the method runs to its first await or to its end.
\* An API method that fails an assertion rejects without a request.
Begin(call) ==
    LET s1 == Step(call, SnapshotOf(call), Pending)
    IN  /\ invocation' = call
        /\ reply' = NoReply
        /\ UNCHANGED objects
        /\ IF s1.do = "settle"
           THEN /\ pc' = "settled"
                /\ awaited' = NoInvocation
                /\ wire' = <<>>
                /\ joined' = <<>>
                /\ outcome' = s1.outcome
                /\ Store(call, s1.data)
           ELSE IF s1.do = "awaitAll"
           THEN LET members == [i \in 1..Len(s1.calls) |-> Launch(s1.calls[i])]
                    all == PromiseAll(members)
                    s2 == Step(call, s1.data, all)
                IN  /\ awaited' = NoInvocation
                    /\ wire' = <<>>
                    /\ joined' = members
                    /\ IF all = Pending
                       THEN /\ pc' = "awaitingAll"
                            /\ outcome' = Pending
                            /\ Store(call, s1.data)
                       ELSE /\ pc' = "settled"
                            /\ outcome' = s2.outcome
                            /\ Store(call, s2.data)
           ELSE LET plan == ApiPlan(s1.call)
                    s2 == Step(call, s1.data, Rejected(AssertionError))
                IN  /\ awaited' = s1.call
                    /\ joined' = <<>>
                    /\ IF All(plan.asserts)
                       THEN /\ pc' = "awaiting"
                            /\ wire' = <<plan.request>>
                            /\ outcome' = Pending
                            /\ Store(call, s1.data)
                       ELSE /\ pc' = "settled"
                            /\ wire' = <<>>
                            /\ outcome' = s2.outcome
                            /\ Store(call, s2.data)

ApiInvoke ==
    /\ pc = "idle"
    /\ \E call \in ApiCalls : Begin(call)

\* The service answers the request in flight.  ky runs the afterResponse
\* hooks; a hook's error is retried while the retry limit allows and is the
\* call's rejection otherwise; without one the API method validates and returns.
Respond ==
    /\ pc = "awaiting"
    /\ \E response \in Responses :
        LET request == wire[Len(wire)]
            error == afterResponse(request, response)
            result == IF error # NoError
                      THEN Rejected(error)
                      ELSE ApiReturn(ApiPlan(awaited), response)
            s == Step(invocation, SnapshotOf(invocation), result)
        IN  /\ reply' = response
            /\ IF error # NoError /\ Len(wire) <= Retry
               THEN /\ wire' = Append(wire, request)
                    /\ UNCHANGED <<pc, outcome, data, appData>>
               ELSE /\ pc' = "settled"
                    /\ wire' = wire
                    /\ outcome' = s.outcome
                    /\ Store(invocation, s.data)
    /\ UNCHANGED <<invocation, awaited, joined>>
    /\ UNCHANGED objects

\* The service answers one of the requests of a Promise.all, in any order.
\* The method goes on as soon as one member rejects or the last one fulfils;
\* the answer to a request still out then settles that call and nothing else.
RespondAll ==
    /\ pc \in {"awaitingAll", "settled"}
    /\ \E i \in 1..Len(joined), response \in Responses :
        LET member == joined[i]
            request == member.wire[Len(member.wire)]
            error == afterResponse(request, response)
            result == IF error # NoError
                      THEN Rejected(error)
                      ELSE ApiReturn(ApiPlan(member.call), response)
            members == [joined EXCEPT ![i].reply = response, ![i].result = result]
            all == PromiseAll(members)
            s == Step(invocation, SnapshotOf(invocation), all)
        IN  /\ member.result = Pending
            /\ IF error # NoError /\ Len(member.wire) <= Retry
               THEN /\ joined' = [joined EXCEPT ![i].reply = response,
                                                ![i].wire = Append(member.wire, request)]
                    /\ UNCHANGED <<pc, outcome, data, appData>>
               ELSE /\ joined' = members
                    /\ IF pc = "settled" \/ all = Pending
                       THEN UNCHANGED <<pc, outcome, data, appData>>
                       ELSE /\ pc' = "settled"
                            /\ outcome' = s.outcome
                            /\ Store(invocation, s.data)
    /\ UNCHANGED <<invocation, awaited, wire, reply>>
    /\ UNCHANGED objects

\* The caller has the settled promise and may call again.
Return ==
    /\ pc = "settled"
    /\ pc' = "idle"
    /\ invocation' = NoInvocation
    /\ awaited' = NoInvocation
    /\ wire' = <<>>
    /\ reply' = NoReply
    /\ outcome' = Pending
    /\ joined' = <<>>
    /\ UNCHANGED <<data, appData>>
    /\ UNCHANGED objects

Next == ApiInvoke \/ Respond \/ Return

Spec == Init /\ [][Next]_vars

(***************************************************************************)
(* The caller works with one Device.                                       *)
(***************************************************************************)
TextSamples == {"", "tag", "tag-2", "lost"}

DeviceCall(method, args) == [layer |-> "device", method |-> method, args |-> args]

DeviceCalls ==
    {DeviceCall(m, [none |-> TRUE]) : m \in {"update", "removeOwner"}}
    \cup {DeviceCall("setOwner", [user |-> [id |-> id]]) : id \in IdSamples}
    \cup {DeviceCall("setLocation", [location |-> [id |-> id]]) : id \in IdSamples}
    \cup {DeviceCall(m, [text |-> text]) :
            m \in {"setAssetTag", "setNotes"}, text \in TextSamples}

DeviceInvoke ==
    /\ pc = "idle"
    /\ \E call \in DeviceCalls : Begin(call)

NextDevice == DeviceInvoke \/ Respond \/ Return

SpecDevice == Init /\ [][NextDevice]_vars

(***************************************************************************)
(* The caller works with one Device and one App: updates, setters and      *)
(* relationship traversals.                                                *)
(***************************************************************************)
AppCall(method) == [layer |-> "app", method |-> method, args |-> [none |-> TRUE]]

Traversals ==
    {DeviceCall(m, [none |-> TRUE]) : m \in {"getOwner", "getGroups", "getApps", "getLocation"}}

AppCalls == {AppCall(m) : m \in {"getDevices", "getLocation", "update"}}

TraversalInvoke ==
    /\ pc = "idle"
    /\ \E call \in Traversals : Begin(call)

AppInvoke ==
    /\ pc = "idle"
    /\ \E call \in AppCalls : Begin(call)

NextObjects ==
    DeviceInvoke \/ TraversalInvoke \/ AppInvoke \/ Respond \/ RespondAll \/ Return

SpecObjects == Init /\ [][NextObjects]_vars

(***************************************************************************)
(* The caller works with two Devices made from one raw record and with one *)
(* App, and starts calls while others are in flight.  Each call runs to    *)
(* its await when started and from its await to its end when its response  *)
(* is delivered; nothing else runs in between (one thread of control).     *)
(***************************************************************************)
\* Calls in flight at once.
MaxFlights == 2
\* Record objects in memory: the two of construction and one per update().
MaxRecords == 4

Holders == {"device", "twin", "app"}
SnapshotAt(holder) == heap[refs[holder]]

OverlappingCalls ==
    {<<h, c>> : h \in {"device", "twin"},
                c \in {DeviceCall("update", [none |-> TRUE]),
                       DeviceCall("removeOwner", [none |-> TRUE]),
                       DeviceCall("setAssetTag", [text |-> "tag"]),
                       DeviceCall("setAssetTag", [text |-> "tag-2"]),
                       DeviceCall("setNotes", [text |-> "lost"]),
                       DeviceCall("setLocation", [location |-> [id |-> Num(0)]])}}
    \cup {<<"app", AppCall("update")>>}

OneDeviceRecords == {DeviceA2, DeviceB}

Answers ==
    {Response(200, DeviceList(<<d>>)) : d \in OneDeviceRecords}
    \cup {Response(200, b) :
            b \in {DeviceList(<<DeviceA, DeviceB>>), AppX2,
                   JObj([code |-> JNum(Num(200)), message |-> JStr("MigrationStarted")]),
                   JObj([message |-> JStr("DeviceOwnerSet"), device |-> JChars(c0FFee)])}}
    \cup {Response(500, JStr("Not Found"))}

\* a started call: the object it was called on, the requests it has issued,
\* its last response, its promise, how many deliveries preceded its start
\* and the rank of its own delivery (0: none yet)
Flight(holder, call, awaiting, requests, result) ==
    [holder |-> holder, call |-> call, awaited |-> awaiting, wire |-> requests,
     reply |-> NoReply, result |-> result,
     after |-> Cardinality({j \in 1..Len(flights) : flights[j].order > 0}),
     order |-> 0]

\* update() writes into the record it holds
Bind_inPlace(holder, call, s) ==
    /\ heap' = [heap EXCEPT ![refs[holder]] = s.data]
    /\ refs' = refs

\* update() takes the record received only while it holds the record of
\* construction
Bind_ifUnchanged(holder, call, s) ==
    IF s.do = "settle" /\ call.method = "update" /\ s.outcome.state = "fulfilled"
       /\ refs[holder] <= 2
    THEN /\ heap' = Append(heap, s.data)
         /\ refs' = [refs EXCEPT ![holder] = Len(heap) + 1]
    ELSE UNCHANGED <<heap, refs>>

\* What a step of a method leaves in memory: update(), fulfilled, has bound
\* #data to the record object it received; no other method assigns #data.
Bind(holder, call, s) ==
    IF s.do = "settle" /\ call.method = "update" /\ s.outcome.state = "fulfilled"
    THEN /\ heap' = Append(heap, s.data)
         /\ refs' = [refs EXCEPT ![holder] = Len(heap) + 1]
    ELSE /\ heap' = [heap EXCEPT ![refs[holder]] = s.data]
         /\ refs' = refs

\* The caller starts a method on one of the objects; it runs to its await.
Start ==
    /\ Len(flights) < MaxFlights
    /\ Len(heap) + Len(flights) < MaxRecords
    /\ \E hc \in OverlappingCalls :
        LET holder == hc[1]
            call == hc[2]
            s1 == Step(call, SnapshotAt(holder), Pending)
            s2 == Step(call, s1.data, Rejected(AssertionError))
        IN  IF s1.do = "settle"
            THEN /\ flights' = Append(flights,
                                 Flight(holder, call, NoInvocation, <<>>, s1.outcome))
                 /\ Bind(holder, call, s1)
            ELSE IF All(ApiPlan(s1.call).asserts)
            THEN /\ flights' = Append(flights,
                                 Flight(holder, call, s1.call,
                                        <<ApiPlan(s1.call).request>>, Pending))
                 /\ Bind(holder, call, s1)
            ELSE /\ flights' = Append(flights,
                                 Flight(holder, call, s1.call, <<>>, s2.outcome))
                 /\ Bind(holder, call, s2)
    /\ UNCHANGED sequential

\* The service answers one of the requests in flight, in any order; the
\* method that awaited it runs to its end.
Deliver ==
    /\ \E i \in 1..Len(flights), response \in Answers :
        LET flight == flights[i]
            request == flight.wire[Len(flight.wire)]
            error == afterResponse(request, response)
            result == IF error # NoError
                      THEN Rejected(error)
                      ELSE ApiReturn(ApiPlan(flight.awaited), response)
            s == Step(flight.call, SnapshotAt(flight.holder), result)
        IN  /\ flight.result = Pending
            /\ IF error # NoError /\ Len(flight.wire) <= Retry
               THEN /\ flights' = [flights EXCEPT ![i].reply = response,
                                                  ![i].wire = Append(flight.wire, request)]
                    /\ UNCHANGED <<heap, refs>>
               ELSE /\ flights' =
                        [flights EXCEPT
                           ![i].reply = response,
                           ![i].result = s.outcome,
                           ![i].order =
                              1 + Cardinality({j \in 1..Len(flights) : flights[j].order > 0})]
                    /\ Bind(flight.holder, flight.call, s)
    /\ UNCHANGED sequential

\* The caller has every promise settled and goes on.
Collect ==
    /\ flights # <<>>
    /\ \A i \in 1..Len(flights) : flights[i].result # Pending
    /\ flights' = <<>>
    /\ UNCHANGED <<heap, refs>>
    /\ UNCHANGED sequential

NextOverlapping == Start \/ Deliver \/ Collect

SpecOverlapping == Init /\ [][NextOverlapping]_vars

(***************************************************************************)
(* The same, with a caller that asks an object for its record (toJSON      *)
(* returns #data itself) and assigns to a member of the object it got.     *)
(***************************************************************************)
ToJSON ==
    /\ \E h \in Holders : refs' = [refs EXCEPT !.caller = refs[h]]
    /\ UNCHANGED <<heap, flights>>
    /\ UNCHANGED sequential

CallerWrite ==
    /\ refs.caller # 0
    /\ heap' = [heap EXCEPT ![refs.caller] = [@ EXCEPT !.o.name = JStr("renamed")]]
    /\ UNCHANGED <<refs, flights>>
    /\ UNCHANGED sequential

NextAliased == Start \/ Deliver \/ Collect \/ ToJSON \/ CallerWrite

SpecAliased == Init /\ [][NextAliased]_vars

(***************************************************************************)
(* assertValid applied to a route and a payload of the caller's choice.    *)
(***************************************************************************)
\* a record without one member, and with one member set
Without(record, key) == JObj([k \in DOMAIN record.o \ {key} |-> record.o[k]])
With(record, key, v) == JObj((key :> v) @@ record.o)

\* a value of another primitive type than v's
OtherType(v) == IF v.t = "boolean" THEN JStr("true") ELSE JBool(TRUE)

OwnerSet == JObj([message |-> JStr("DeviceOwnerSet"), device |-> JChars(c0FFee)])

\* payloads with every required member, well typed, and no other member
ValidDevices ==
    {DeviceA, DeviceA2, DeviceB, DeviceC,
     [DeviceA EXCEPT !.o.enrollType = JStr("ac2Pending")],
     [DeviceA EXCEPT !.o.locationId = JNum(Finite(TRUE, 16, 0, 0))]}
\* the same with optional members present
OptionalDevices ==
    {With(DeviceA, "isBootstrapStored", JBool(TRUE)),
     WithApps(DeviceA, <<"com.x", "com.y">>),
     WithApps(DeviceA, <<>>),
     [DeviceA EXCEPT !.o.region = With(@, "coordinates", JStr("12.34,-56.78"))],
     [DeviceA EXCEPT !.o.owner = With(@, "email", JStr("ada@example.org"))],
     [DeviceA EXCEPT !.o.networkInformation = With(@, "EthernetMACs", JStr(""))]}
\* a required member left out, at the top of the record or inside it
MissingDevices ==
    {Without(DeviceA, key) : key \in DOMAIN DeviceA.o}
    \cup {[DeviceA EXCEPT !.o.os = Without(@, "version")],
          [DeviceA EXCEPT !.o.owner = Without(@, "id")],
          [DeviceA EXCEPT !.o.region = Without(@, "string")],
          [DeviceA EXCEPT !.o.model = JObj(NoProperties)],
          With(DeviceA, "apps", JArr(<<Without(InstalledApp("com.x"), "identifier")>>))}
\* a member of a type that is not the declared one: null, another
\* primitive, a number that is no int32
WrongTypeDevices ==
    {With(DeviceA, key, w) :
        <<key, w>> \in UNION {{<<k, JNull>>, <<k, OtherType(DeviceA.o[k])>>} :
                                k \in DOMAIN DeviceA.o}}
    \cup {[DeviceA EXCEPT !.o.locationId = JNum(OnePointFive)],
          [DeviceA EXCEPT !.o.locationId = JNum(Finite(FALSE, 16, 0, 0))],
          [DeviceA EXCEPT !.o.owner.o.id = JStr("7")],
          [DeviceA EXCEPT !.o.groups = JArr(<<JStr("IT Devices"), JNum(Num(7))>>)],
          With(DeviceA, "isBootstrapStored", JStr("yes")),
          With(DeviceA, "apps", JObj(NoProperties))}
\* enrollType outside the literal set
BadEnumDevices ==
    {[DeviceA EXCEPT !.o.enrollType = JStr(e)] : e \in {"byod", "DEP", "", "ac2 "}}
\* every declared member as it should be, and one the schema does not declare
ExtraDevices ==
    {With(DeviceA, "extra", JNull),
     With(DeviceA, "serial", JStr("SN-A")),
     [DeviceA EXCEPT !.o.os = With(@, "build", JStr("19B74"))]}

Sample(route, payload) == [route |-> route, payload |-> payload]
OneDevice(devices) == {Sample("GET /devices", DeviceList(<<d>>)) : d \in devices}

ValidSamples ==
    OneDevice(ValidDevices)
    \cup {Sample("GET /devices", DeviceList(<<>>)),
          Sample("GET /devices", DeviceList(<<DeviceA, DeviceB>>)),
          Sample("PUT /devices/:udid/owner", OwnerSet)}
OptionalSamples == OneDevice(OptionalDevices)
MissingSamples ==
    OneDevice(MissingDevices)
    \cup {Sample("GET /devices", Without(DeviceList(<<DeviceA>>), key)) :
            key \in {"code", "count", "devices"}}
    \cup {Sample("GET /devices", DeviceList(<<DeviceA, Without(DeviceB, "UDID")>>))}
    \cup {Sample("PUT /devices/:udid/owner", Without(OwnerSet, key)) :
            key \in {"message", "device"}}
WrongTypeSamples ==
    OneDevice(WrongTypeDevices)
    \cup {Sample("GET /devices", With(DeviceList(<<DeviceA>>), "code", JStr("200"))),
          Sample("GET /devices", With(DeviceList(<<DeviceA>>), "devices", DeviceA))}
    \cup {Sample("PUT /devices/:udid/owner", With(OwnerSet, key, w)) :
            key \in {"message", "device"}, w \in {JNull, JNum(Num(7))}}
BadEnumSamples == OneDevice(BadEnumDevices)
ExtraSamples ==
    OneDevice(ExtraDevices)
    \cup {Sample("GET /devices", With(DeviceList(<<DeviceA>>), "next", JNull)),
          Sample("PUT /devices/:udid/owner", With(OwnerSet, "code", JNum(Num(200))))}

SchemaSamples ==
    ValidSamples \cup OptionalSamples \cup MissingSamples \cup WrongTypeSamples
    \cup BadEnumSamples \cup ExtraSamples

SchemaInvoke ==
    /\ pc = "idle"
    /\ \E sample \in SchemaSamples :
        /\ invocation' = [layer |-> "fn", method |-> "assertValid", args |-> sample]
        /\ outcome' = IF assertValid(sample.route, sample.payload)
                      THEN Fulfilled(Undefined)
                      ELSE Rejected(SchemaError(sample.route))
    /\ pc' = "settled"
    /\ UNCHANGED <<awaited, wire, reply, data, appData, joined>>
    /\ UNCHANGED objects

NextSchema == SchemaInvoke \/ Return

SpecSchema == Init /\ [][NextSchema]_vars

(***************************************************************************)
(* isValidID applied to a number of the caller's choice.                   *)
(***************************************************************************)
\* the three numbers that are not finite, and finite numbers of either sign
\* around zero and around 2^53, whole and with a fraction
IdNumbers ==
    {NaN, Infinity, NegInfinity}
    \cup {Finite(neg, hi, lo, tenths) :
            neg \in BOOLEAN, hi \in {0, 1, 2^26 - 1, 2^26, 2^26 + 1},
            lo \in {0, 1, 7, Limb - 1}, tenths \in {0, 1, 5, 9}}

IdInvoke ==
    /\ pc = "idle"
    /\ \E id \in IdNumbers :
        /\ invocation' = [layer |-> "fn", method |-> "isValidID", args |-> [id |-> id]]
        /\ outcome' = Fulfilled(JBool(isValidID(id)))
    /\ pc' = "settled"
    /\ UNCHANGED <<awaited, wire, reply, data, appData, joined>>
    /\ UNCHANGED objects

NextId == IdInvoke \/ Return

SpecId == Init /\ [][NextId]_vars

(***************************************************************************)
(* isValidUDID applied to a string of the caller's choice.                 *)
(***************************************************************************)
\* the ends of the ranges 0-9, a-f and A-F, the dash, and characters next
\* to the ranges or far from them
UdidAlphabet ==
    {"0", "9", "a", "f", "A", "F", "-", "g", "G", "/", ":", "@", " ", "_"}

UdidStrings == UNION {[1..n -> UdidAlphabet] : n \in 0..MaxUdidLen}

UdidInvoke ==
    /\ pc = "idle"
    /\ \E udid \in UdidStrings :
        /\ invocation' = [layer |-> "fn", method |-> "isValidUDID",
                          args |-> [udid |-> udid]]
        /\ outcome' = Fulfilled(JBool(isValidUDID(udid)))
    /\ pc' = "settled"
    /\ UNCHANGED <<awaited, wire, reply, data, appData, joined>>
    /\ UNCHANGED objects

NextUdid == UdidInvoke \/ Return

SpecUdid == Init /\ [][NextUdid]_vars

(***************************************************************************)
(* getRegion() of a Device made from a record of the caller's choice.      *)
(***************************************************************************)
\* numbers as the service writes them in a coordinate string, each with the
\* value it stands for, written out by hand
GoodParts ==
    {[text |-> <<"1", "2", ".", "3", "4">>,
      value |-> [neg |-> FALSE, int |-> 12, frac |-> <<3, 4>>]],
     [text |-> <<"-", "5", "6", ".", "7", "8">>,
      value |-> [neg |-> TRUE, int |-> 56, frac |-> <<7, 8>>]],
     [text |-> <<"+", "0">>,
      value |-> [neg |-> FALSE, int |-> 0, frac |-> <<>>]],
     [text |-> <<"1", "8", "0">>,
      value |-> [neg |-> FALSE, int |-> 180, frac |-> <<>>]],
     [text |-> <<"1", ".", "5", "0">>,
      value |-> [neg |-> FALSE, int |-> 1, frac |-> <<5>>]],
     [text |-> <<"0", "0", "7">>,
      value |-> [neg |-> FALSE, int |-> 7, frac |-> <<>>]],
     [text |-> <<"-", "0", ".", "0", "0", "0", "0", "0", "0", "0", "0", "0", "0", "0", "0", "0", "0", "1">>,
      value |-> [neg |-> TRUE, int |-> 0, frac |-> <<0, 0, 0, 0, 0, 0, 0, 0, 0, 0, 0, 0, 0, 0, 1>>]]}

\* strings that are no number of the coordinate format: empty, four integer
\* digits, no digit after or before the point, a letter, sixteen fraction
\* digits, two signs, an exponent, a leading blank
BadParts ==
    {<<>>,
     <<"1", "2", "3", "4">>,
     <<"1", ".">>,
     <<".", "5">>,
     <<"1", "2", ".", "3", "a">>,
     <<"1", ".", "0", "0", "0", "0", "0", "0", "0", "0", "0", "0", "0", "0", "0", "0", "0", "1">>,
     <<"-", "-", "1">>,
     <<"1", "e", "3">>,
     <<" ", "1">>}

Parts == {g.text : g \in GoodParts} \cup BadParts
Separators == {<<",">>, <<";">>, <<",", ",">>}

RegionSamples ==
    {[string |-> JStr(name)] : name \in {"", "Europe"}}
    \cup {[string |-> JStr(name), coordinates |-> JChars(lat \o sep \o long)] :
            name \in {"", "Europe"}, lat \in Parts, sep \in Separators, long \in Parts}

InitRegion ==
    /\ pc = "idle"
    /\ invocation = NoInvocation
    /\ awaited = NoInvocation
    /\ wire = <<>>
    /\ reply = NoReply
    /\ outcome = Pending
    /\ data \in {[DeviceA EXCEPT !.o.region = JObj(region)] : region \in RegionSamples}
    /\ appData = AppX
    /\ joined = <<>>
    /\ heap = <<data, AppX>>
    /\ refs = [device |-> 1, twin |-> 1, app |-> 2, caller |-> 0]
    /\ flights = <<>>

GetRegion == DeviceCall("getRegion", [none |-> TRUE])

RegionInvoke ==
    /\ pc = "idle"
    /\ Begin(GetRegion)

NextRegion == RegionInvoke \/ Return

SpecRegion == InitRegion /\ [][NextRegion]_vars

(***************************************************************************)
(* toSearchParams applied to an entry list of the caller's choice.         *)
(***************************************************************************)
ParamKeys == {"a", "b", "c"}
ParamValues ==
    {Undefined, JNull, JBool(TRUE), JBool(FALSE), JNum(Num(0)), JNum(Num(42)),
     JNum(Neg(1)), JNum(OnePointFive), JNum(NaN), JStr(""), JStr("x"), JStr("true")}

\* Object.entries(data): the keys of an object are distinct
EntryLists ==
    UNION {
        {es \in [1..n -> [key : ParamKeys, val : ParamValues]] :
            \A i, j \in 1..n : i # j => es[i].key # es[j].key}
        : n \in 0..MaxEntries}

ParamsInvoke ==
    /\ pc = "idle"
    /\ \E entries \in EntryLists :
        /\ invocation' = [layer |-> "fn", method |-> "toSearchParams",
                          args |-> [entries |-> entries]]
        /\ outcome' = Fulfilled(toSearchParams(entries))
    /\ pc' = "settled"
    /\ UNCHANGED <<awaited, wire, reply, data, appData, joined>>
    /\ UNCHANGED objects

NextParams == ParamsInvoke \/ Return

SpecParams == Init /\ [][NextParams]_vars

(***************************************************************************)
(* Properties.                                                             *)
(***************************************************************************)
ApiSettled == pc = "settled" /\ invocation.layer = "api"

\* the route a request addresses: its HTTP method and its path pattern
RouteKeyOf(request) == request.method \o " /" \o request.path.tpl

\* the samples that match ^[0-9a-f-]+$ (case-insensitive), and the samples
\* that are non-negative safe integers, listed by hand
MatchingUdids == {c0FFee, Dash}
NonNegativeSafeIntegers == {Num(0), Num(7), MAX_SAFE_INTEGER}

\* C1: an API method returns a value only if the full answer of its one
\* request passed the validator of the route the request addresses, and the
\* value is that answer or a member of it; an answer the hooks let through
\* that the route's schema rejects makes the call fail with SchemaError.
C1_ValidatedBeforeReturn ==
    ApiSettled =>
        /\ outcome.state = "fulfilled" =>
            /\ Len(wire) = 1
            /\ reply # NoReply
            /\ Check(RouteKeyOf(wire[1]), ResponseJson(reply))
            /\ \/ outcome.value = ResponseJson(reply)
               \/ \E key \in DOMAIN ResponseJson(reply).o :
                        outcome.value = ResponseJson(reply).o[key]
        /\ (wire # <<>> /\ ResponseOk(reply)
                /\ ~Check(RouteKeyOf(wire[1]), ResponseJson(reply))) =>
            outcome = Rejected(SchemaError(RouteKeyOf(wire[1])))

C1_Witness ==
    /\ ApiSettled
    /\ invocation.method = "getDevice"
    /\ reply.status = 200
    /\ outcome = Fulfilled(EntityRecord)

C1_WitnessSchemaError ==
    /\ ApiSettled
    /\ invocation.method = "getDevices"
    /\ reply = Response(200, DeviceList(<<[DeviceA EXCEPT !.o.enrollType = JStr("byod")]>>))
    /\ outcome = Rejected(SchemaError("GET /devices"))

MethodsTakingUdidOrId ==
    {"getUser", "getUserGroup", "getDevice", "getDeviceGroup", "updateDeviceGroup",
     "restartDevice", "wipeDevice", "setDeviceOwner", "moveDevice", "updateUser",
     "updateUserGroup", "updateDevice", "moveUser", "getApp", "getLocation",
     "getProfile"}

HasMalformedArgument(args) ==
    \/ "udid" \in DOMAIN args /\ args.udid \notin MatchingUdids
    \/ \E key \in {"id", "userId", "locationId"} \cap DOMAIN args :
            args[key] \notin NonNegativeSafeIntegers

\* C2: a method that takes a UDID or a numeric ID, called with a UDID that
\* does not match the pattern or an ID that is no non-negative safe integer,
\* fails and has issued no HTTP request.
C2_MalformedArgumentNoRequest ==
    (/\ invocation.layer = "api"
     /\ invocation.method \in MethodsTakingUdidOrId
     /\ HasMalformedArgument(invocation.args)) =>
        /\ pc = "settled"
        /\ wire = <<>>
        /\ outcome = Rejected(AssertionError)

C2_Witness ==
    /\ ApiSettled
    /\ invocation.method = "setDeviceOwner"
    /\ invocation.args.udid = c0FFee
    /\ invocation.args.userId = TwoPow53
    /\ wire = <<>>
    /\ outcome.state = "rejected"

OptionIds(options) ==
    {options[key].n : key \in {k \in {"ownerId", "locationId"} : options[k].t = "number"}}
    \cup UNION {{options[key].ids[i] : i \in 1..Len(options[key].ids)} :
                    key \in {k \in {"groupIds", "ownerGroupIds"} : options[k].t = "array"}}

\* C3: getDevices called with an ID in its options (ownerId, locationId, an
\* entry of groupIds or ownerGroupIds) that is no non-negative safe integer
\* fails and has issued no HTTP request.
C3_GetDevicesValidatesIds ==
    (/\ invocation.layer = "api"
     /\ invocation.method = "getDevices"
     /\ ~(OptionIds(invocation.args.options) \subseteq NonNegativeSafeIntegers)) =>
        /\ pc = "settled"
        /\ wire = <<>>
        /\ outcome.state = "rejected"

\* C4: the status of the answer decides the error: 401 is AuthError, 405 is
\* PermissionError with the request's method and path, another status
\* outside 200..299 is APIError, and a status in 200..299 is none of the three.
C4_StatusDecidesError ==
    (ApiSettled /\ reply # NoReply) =>
        LET raised == IF outcome.state = "rejected" THEN outcome.error.name ELSE "none"
        IN  /\ reply.status = 401 => raised = "AuthError"
            /\ reply.status = 405 =>
                /\ raised = "PermissionError"
                /\ outcome.error.method = wire[1].method
                /\ outcome.error.endpoint = wire[1].path
            /\ (reply.status \notin 200..299 /\ reply.status \notin {401, 405}) =>
                raised = "APIError"
            /\ reply.status \in 200..299 =>
                raised \notin {"AuthError", "PermissionError", "APIError"}

C4_Witness ==
    /\ ApiSettled
    /\ invocation.method = "restartDevice"
    /\ reply.status = 405
    /\ outcome.state = "rejected"
    /\ outcome.error.name = "PermissionError"
    /\ outcome.error.method = "POST"
    /\ outcome.error.endpoint = PathUdid("devices/:udid/restart", c0FFee)

\* C5: an invocation of an API method issues at most one HTTP request; when
\* the answer is an error status the call has settled as rejected after that
\* one request.
C5_NoRetry ==
    invocation.layer = "api" =>
        /\ Len(wire) <= 1
        /\ (reply # NoReply /\ reply.status \notin 200..299) =>
            /\ pc = "settled"
            /\ Len(wire) = 1
            /\ outcome.state = "rejected"

C5_Witness ==
    /\ ApiSettled
    /\ invocation.method = "getUsers"
    /\ reply.status = 500
    /\ Len(wire) = 1
    /\ outcome.state = "rejected"

AllMatching(devices) == \A i \in 1..Len(devices) : devices[i] \in MatchingUdids

\* C6: moveDevices with an empty array, more than 20 entries, a malformed
\* UDID or an invalid location ID fails and has issued no HTTP request.
C6_MoveDevicesRejects ==
    (/\ invocation.layer = "api"
     /\ invocation.method = "moveDevices"
     /\ \/ Len(invocation.args.devices) = 0
        \/ Len(invocation.args.devices) > 20
        \/ ~AllMatching(invocation.args.devices)
        \/ invocation.args.locationId \notin NonNegativeSafeIntegers) =>
        /\ pc = "settled"
        /\ wire = <<>>
        /\ outcome = Rejected(AssertionError)

C6_Witness ==
    /\ ApiSettled
    /\ invocation.method = "moveDevices"
    /\ Len(invocation.args.devices) = 21
    /\ AllMatching(invocation.args.devices)
    /\ invocation.args.locationId = Num(0)
    /\ wire = <<>>
    /\ outcome.state = "rejected"

\* C7: moveDevices with 1 to 20 valid UDIDs and a valid location ID sends
\* exactly one request, PUT devices/migrate, whose body has the given UDIDs
\* in the given order and the given location ID; it succeeds when the answer
\* is a 2xx that the route's schema accepts.
C7_MoveDevicesSends ==
    (/\ invocation.layer = "api"
     /\ invocation.method = "moveDevices"
     /\ Len(invocation.args.devices) \in 1..20
     /\ AllMatching(invocation.args.devices)
     /\ invocation.args.locationId \in NonNegativeSafeIntegers) =>
        /\ Len(wire) = 1
        /\ wire[1].method = "PUT"
        /\ wire[1].path = Path("devices/migrate")
        /\ wire[1].searchParams = Undefined
        /\ Len(wire[1].body.o.udids.a) = Len(invocation.args.devices)
        /\ \A i \in 1..Len(invocation.args.devices) :
                wire[1].body.o.udids.a[i] = JChars(invocation.args.devices[i])
        /\ wire[1].body.o.locationId = JNum(invocation.args.locationId)
        /\ (/\ pc = "settled"
            /\ reply.status \in 200..299
            /\ Check("PUT /devices/migrate", ResponseJson(reply))) =>
                outcome.state = "fulfilled"

C7_Witness ==
    /\ ApiSettled
    /\ invocation.method = "moveDevices"
    /\ Len(invocation.args.devices) = 20
    /\ invocation.args.devices[1] = c0FFee
    /\ invocation.args.locationId = MAX_SAFE_INTEGER
    /\ Len(wire) = 1
    /\ outcome.state = "fulfilled"

MoveFlag(method) == IF method = "moveUser" THEN "onlyUser" ELSE "onlyDevice"

\* the caller passed the option `key`
Passed(options, key) == options.t = "object" /\ key \in DOMAIN options.o

\* C8: the body of a move request has the onlyDevice (onlyUser) key exactly
\* when the caller passed that option, and then with the value passed.
C8_OnlyFlagIffPassed ==
    (/\ invocation.layer = "api"
     /\ invocation.method \in {"moveDevices", "moveDevice", "moveUser"}
     /\ wire # <<>>) =>
        LET key == MoveFlag(invocation.method)
            body == wire[1].body.o
        IN  /\ key \in DOMAIN body <=> Passed(invocation.args.options, key)
            /\ key \in DOMAIN body => body[key] = invocation.args.options.o[key]

C8_Witness ==
    /\ invocation.layer = "api"
    /\ invocation.method = "moveDevice"
    /\ invocation.args.options = Undefined
    /\ wire # <<>>
    /\ DOMAIN wire[1].body.o = {"locationId"}

C8_WitnessPassed ==
    /\ invocation.layer = "api"
    /\ invocation.method = "moveUser"
    /\ invocation.args.options = JObj([onlyUser |-> JBool(TRUE)])
    /\ wire # <<>>
    /\ wire[1].body.o.onlyUser = JBool(TRUE)

\* the string form of the sample values, written out
StringForm(val) ==
    CASE val = JNum(Num(0)) -> "0"
      [] val = JNum(Num(42)) -> "42"
      [] val = JNum(Neg(1)) -> "-1"
      [] val = JNum(OnePointFive) -> "1.5"
      [] val = JNum(NaN) -> "NaN"
      [] val = JBool(TRUE) -> "1"
      [] val = JBool(FALSE) -> "0"
      [] OTHER -> val.s

Nullish == {Undefined, JNull}

\* the indices of the entries that are kept, in order
RECURSIVE KeptIndices(_, _)
KeptIndices(entries, i) ==
    IF i > Len(entries) THEN <<>>
    ELSE IF entries[i].val \in Nullish THEN KeptIndices(entries, i + 1)
    ELSE <<i>> \o KeptIndices(entries, i + 1)

\* C9: toSearchParams leaves out every entry whose value is null or
\* undefined, writes a boolean as 0 or 1 and every other value by its string
\* form, keeps the order of the entries, and is undefined when no entry is left.
C9_SearchParams ==
    (pc = "settled" /\ invocation.layer = "fn") =>
        LET entries == invocation.args.entries
            kept == KeptIndices(entries, 1)
            out == outcome.value
        IN  IF kept = <<>>
            THEN out = Undefined
            ELSE /\ out # Undefined
                 /\ Len(out.entries) = Len(kept)
                 /\ \A j \in 1..Len(kept) :
                        /\ out.entries[j].key = entries[kept[j]].key
                        /\ out.entries[j].str = StringForm(entries[kept[j]].val)

C9_Witness ==
    /\ pc = "settled"
    /\ invocation.layer = "fn"
    /\ invocation.args.entries =
            <<[key |-> "a", val |-> JNull], [key |-> "b", val |-> JBool(TRUE)]>>
    /\ outcome.value.entries = <<[key |-> "b", str |-> "1"]>>

C9_WitnessUndefined ==
    /\ pc = "settled"
    /\ invocation.layer = "fn"
    /\ invocation.args.entries =
            <<[key |-> "a", val |-> JNull], [key |-> "b", val |-> Undefined]>>
    /\ outcome.value = Undefined

DeviceSetters == {"setOwner", "removeOwner", "setLocation", "setAssetTag", "setNotes"}

\* C10: no step of a Device setter changes the snapshot, whether the write
\* succeeded, failed or was skipped; the snapshot changes only in the step
\* that completes an update().
C10_SettersKeepSnapshot ==
    [][/\ (invocation'.layer = "device" /\ invocation'.method \in DeviceSetters) =>
            data' = data
       /\ data' # data =>
            /\ invocation.method = "update"
            /\ pc = "awaiting"
            /\ pc' = "settled"]_vars

C10_Witness ==
    /\ pc = "settled"
    /\ invocation = DeviceCall("setAssetTag", [text |-> "tag-2"])
    /\ Len(wire) = 1
    /\ reply.status = 200
    /\ outcome = Fulfilled(Undefined)
    /\ data = DeviceA
    /\ data.o.assetTag = JStr("tag")

\* the answers of GET /devices that its schema accepts, by the number of devices
OneDeviceAnswers ==
    {DeviceList(<<DeviceA2>>), DeviceList(<<DeviceB>>), DeviceList(<<DeviceC>>)}
OtherDeviceAnswers ==
    {DeviceList(<<>>), DeviceList(<<DeviceA, DeviceB>>),
     DeviceList(<<WithApps(DeviceA, <<"com.x">>), WithApps(DeviceB, <<>>)>>),
     DeviceList(<<WithApps(DeviceB, <<"com.y", "com.x">>), WithApps(DeviceA, <<"com.x">>)>>)}

DeviceUpdate == DeviceCall("update", [none |-> TRUE])

\* C11: update() sends one GET devices whose only query parameter is the
\* snapshot's serial number; when the answer is a valid list of exactly one
\* device the call succeeds and the snapshot is that record, and in every
\* other case (an error status, an answer the schema rejects, a list of
\* zero or two devices) the call rejects with the error and the snapshot
\* stays as it was.
C11_UpdateReplacesOrPropagates ==
    [][/\ (pc = "idle" /\ invocation' = DeviceUpdate) =>
            /\ pc' = "awaiting"
            /\ Len(wire') = 1
            /\ wire'[1].method = "GET"
            /\ wire'[1].path = [tpl |-> "devices"]
            /\ wire'[1].searchParams =
                 [t |-> "URLSearchParams",
                  entries |-> <<[key |-> "serialnumber",
                                 str |-> data.o.serialNumber.s]>>]
            /\ data' = data
       /\ (pc = "awaiting" /\ invocation = DeviceUpdate /\ pc' = "settled") =>
            IF reply'.status = 200 /\ reply'.body \in OneDeviceAnswers
            THEN /\ outcome' = Fulfilled(Undefined)
                 /\ data' = reply'.body.o.devices.a[1]
            ELSE /\ outcome'.state = "rejected"
                 /\ data' = data
                 /\ outcome'.error.name =
                      CASE reply'.status = 405 -> "PermissionError"
                        [] reply'.status = 401 -> "AuthError"
                        [] reply'.status \notin {200, 204} -> "APIError"
                        [] reply'.status = 200 /\ reply'.body \in OtherDeviceAnswers -> "Error"
                        [] OTHER -> "SchemaError"]_vars

C11_Witness ==
    /\ pc = "settled"
    /\ invocation = DeviceUpdate
    /\ reply = Response(200, DeviceList(<<DeviceB>>))
    /\ outcome = Fulfilled(Undefined)
    /\ data = DeviceB
    /\ wire[1].searchParams.entries[1].str = "SN-A"

C11_WitnessTwoDevices ==
    /\ pc = "settled"
    /\ invocation = DeviceUpdate
    /\ reply = Response(200, DeviceList(<<DeviceA, DeviceB>>))
    /\ outcome = Rejected([name |-> "Error"])
    /\ data = DeviceA

\* C12: a successful update() leaves the identity field as it was: the
\* Device's UDID, and the App's id, are the same after the step that
\* completes the update as before it, whatever record the service answered.
C12_IdentityKeptAcrossUpdate ==
    [][(/\ pc = "awaiting"
        /\ pc' = "settled"
        /\ invocation.method = "update"
        /\ outcome'.state = "fulfilled") =>
            /\ invocation.layer = "device" => data'.o.UDID = data.o.UDID
            /\ invocation.layer = "app" => appData'.o.id = appData.o.id]_vars

\* the write a setter makes for its argument, and the snapshot value it
\* compares the argument with
SetterWrite(call) ==
    CASE call.method = "setOwner" ->
            ApiCall("setDeviceOwner", [udid |-> data.o.UDID.c, userId |-> call.args.user.id])
      [] call.method = "setLocation" ->
            ApiCall("moveDevice", [udid |-> data.o.UDID.c,
                                   locationId |-> call.args.location.id,
                                   options |-> Undefined])
      [] call.method = "setAssetTag" ->
            ApiCall("updateDevice", [udid |-> data.o.UDID.c,
                                     json |-> JObj([assetTag |-> JStr(call.args.text)])])
      [] OTHER ->
            ApiCall("updateDevice", [udid |-> data.o.UDID.c,
                                     json |-> JObj([notes |-> JStr(call.args.text)])])

SetterValueIsCurrent(call) ==
    CASE call.method = "setOwner" -> JNum(call.args.user.id) = data.o.owner.o.id
      [] call.method = "setLocation" -> JNum(call.args.location.id) = data.o.locationId
      [] call.method = "setAssetTag" -> JStr(call.args.text) = data.o.assetTag
      [] OTHER -> JStr(call.args.text) = data.o.notes

ValueSetters == {"setOwner", "setLocation", "setAssetTag", "setNotes"}

\* C13: once a setter (setOwner with a non-zero id, setLocation,
\* setAssetTag, setNotes) has run to its await or to its end, it has called
\* no API method and sent no request when its argument equals the
\* snapshot's value of the field, and has called exactly the one write for
\* that field and value when it differs (the write sends at most one request).
C13_SetterWritesIffDifferent ==
    (/\ pc \in {"awaiting", "settled"}
     /\ invocation.layer = "device"
     /\ invocation.method \in ValueSetters
     /\ invocation.method = "setOwner" => invocation.args.user.id # Num(0)) =>
        IF SetterValueIsCurrent(invocation)
        THEN awaited = NoInvocation /\ wire = <<>> /\ outcome = Fulfilled(Undefined)
        ELSE /\ awaited = SetterWrite(invocation)
             /\ Len(wire) <= 1
             /\ wire # <<>> => wire[1].method \in {"PUT", "POST"}
             /\ pc = "awaiting" => Len(wire) = 1

C13_Witness ==
    /\ pc = "settled"
    /\ invocation = DeviceCall("setNotes", [text |-> "lost"])
    /\ data.o.notes = JStr("")
    /\ awaited.method = "updateDevice"
    /\ Len(wire) = 1
    /\ outcome = Fulfilled(Undefined)

C13_WitnessSkipped ==
    /\ pc = "settled"
    /\ invocation = DeviceCall("setOwner", [user |-> [id |-> Num(7)]])
    /\ data.o.owner.o.id = JNum(Num(7))
    /\ awaited = NoInvocation
    /\ wire = <<>>

SetOwnerZero == DeviceCall("setOwner", [user |-> [id |-> Num(0)]])

\* C14: setOwner({ id: 0 }) is over at once, rejected with the assertion's
\* error, having called no API method and sent no request, whether the
\* snapshot's owner id is 0 or not.
C14_SetOwnerZeroIsFatal ==
    (pc # "idle" /\ invocation = SetOwnerZero) =>
        /\ pc = "settled"
        /\ outcome = Rejected(AssertionError)
        /\ awaited = NoInvocation
        /\ wire = <<>>
        /\ reply = NoReply

C14_Witness ==
    /\ pc = "settled"
    /\ invocation = SetOwnerZero
    /\ data.o.owner.o.id = JNum(Num(7))
    /\ outcome = Rejected(AssertionError)

C14_WitnessUnowned ==
    /\ pc = "settled"
    /\ invocation = SetOwnerZero
    /\ data.o.owner.o.id = JNum(Num(0))
    /\ outcome = Rejected(AssertionError)

RemoveOwner == DeviceCall("removeOwner", [none |-> TRUE])

\* C15: once removeOwner() has run to its await or to its end, it has called
\* no API method and sent no request when the snapshot's owner id is 0, and
\* otherwise has made the one call setDeviceOwner(udid, 0) with the
\* snapshot's UDID, which sent one PUT devices/<udid>/owner with user 0.
C15_RemoveOwner ==
    (pc \in {"awaiting", "settled"} /\ invocation = RemoveOwner) =>
        IF data.o.owner.o.id = JNum(Num(0))
        THEN /\ pc = "settled"
             /\ awaited = NoInvocation
             /\ wire = <<>>
             /\ outcome = Fulfilled(Undefined)
        ELSE /\ awaited = [layer |-> "api", method |-> "setDeviceOwner",
                           args |-> [udid |-> data.o.UDID.c, userId |-> Num(0)]]
             /\ Len(wire) = 1
             /\ wire[1].method = "PUT"
             /\ wire[1].path = [tpl |-> "devices/:udid/owner", udid |-> data.o.UDID.c]
             /\ wire[1].body = JObj([user |-> JNum(Num(0))])

C15_Witness ==
    /\ pc = "settled"
    /\ invocation = RemoveOwner
    /\ data = DeviceA
    /\ Len(wire) = 1
    /\ wire[1].path.udid = c0FFee
    /\ reply.status = 200
    /\ outcome = Fulfilled(Undefined)

C15_WitnessUnowned ==
    /\ pc = "settled"
    /\ invocation = RemoveOwner
    /\ data = DeviceB
    /\ wire = <<>>

\* the statuses the hooks turn into AuthError, PermissionError or APIError
ErrorStatuses == {301, 401, 404, 405, 500}

DeviceGetApps == DeviceCall("getApps", [none |-> TRUE])

\* the traversals, and the result each one substitutes
BestEffort == Traversals \cup {AppCall("getDevices"), AppCall("getLocation")}
Fallback(call) ==
    IF call.method \in {"getOwner", "getLocation"} THEN JNull ELSE JArr(<<>>)

\* a call the traversal made was answered with an error status, and no
\* call it made failed in another way
RemoteFailure ==
    IF invocation = DeviceGetApps
    THEN /\ \E i \in 1..Len(joined) : joined[i].reply.status \in ErrorStatuses
         /\ \A i \in 1..Len(joined) :
                joined[i].result.state = "rejected" =>
                    joined[i].reply.status \in ErrorStatuses
    ELSE reply.status \in ErrorStatuses

C16_WitnessOwner ==
    /\ pc = "settled"
    /\ invocation = DeviceCall("getOwner", [none |-> TRUE])
    /\ reply.status = 401
    /\ outcome = Fulfilled(JNull)

C16_WitnessApp ==
    /\ pc = "settled"
    /\ invocation = AppCall("getDevices")
    /\ reply.status = 405
    /\ outcome = Fulfilled(JArr(<<>>))

SingleCallTraversals == BestEffort \ {DeviceGetApps}

\* C17: a single-call traversal whose API call failed its argument
\* assertion (the call was made and sent no request) is rejected with the
\* assertion's error, and one whose API call got a 2xx answer that the
\* route's schema rejects is rejected with SchemaError; neither returns the
\* null or [] fallback.
C17_FatalErrorsNotCaught ==
    (pc = "settled" /\ invocation \in SingleCallTraversals /\ awaited # NoInvocation) =>
        /\ wire = <<>> => outcome = Rejected(AssertionError)
        /\ (/\ wire # <<>>
            /\ reply.status \in {200, 204}
            /\ ~Check(RouteKeyOf(wire[1]), ResponseJson(reply))) =>
                outcome = Rejected(SchemaError(RouteKeyOf(wire[1])))

C17_Witness ==
    /\ pc = "settled"
    /\ invocation = DeviceCall("getGroups", [none |-> TRUE])
    /\ reply = Response(200, JObj([code |-> JStr("200")]))
    /\ outcome = Rejected(SchemaError("GET /devices/groups"))

C17_WitnessValidation ==
    /\ pc = "settled"
    /\ invocation = DeviceCall("getOwner", [none |-> TRUE])
    /\ data = DeviceC
    /\ awaited = ApiCall("getUser", [id |-> Neg(1)])
    /\ wire = <<>>
    /\ outcome = Rejected(AssertionError)

C17_WitnessApp ==
    /\ pc = "settled"
    /\ invocation = AppCall("getLocation")
    /\ appData = AppZ
    /\ wire = <<>>
    /\ outcome = Rejected(AssertionError)

\* C18: when the app list call and the device detail call of getApps() both
\* succeeded and the detail record has no apps member, getApps() is
\* rejected with an Error; it does not return the empty array.
C18_MissingAppsThrows ==
    (/\ pc = "settled"
     /\ invocation = DeviceGetApps
     /\ \A i \in 1..Len(joined) : joined[i].result.state = "fulfilled"
     /\ "apps" \notin DOMAIN joined[2].reply.body.o.device.o) =>
        outcome = Rejected([name |-> "Error"])

C18_Witness ==
    /\ pc = "settled"
    /\ invocation = DeviceGetApps
    /\ joined[1].reply = Response(200, WrappedBody("apps", JArr(<<AppY, AppX>>)))
    /\ joined[2].reply = Response(200, WrappedBody("device", EntityRecord))
    /\ outcome = Rejected([name |-> "Error"])

\* with the apps member present the same call returns the matching apps
C18_WitnessPresent ==
    /\ pc = "settled"
    /\ invocation = DeviceGetApps
    /\ joined[2].reply = Response(200, WrappedBody("device", WithApps(EntityRecord, <<"com.x">>)))
    /\ outcome = Fulfilled(JArr(<<Created("App", AppX)>>))

\* C19: getRegion() returns null when the region name is empty, whatever
\* the coordinate string; with a non-empty name it returns the name with the
\* two numbers of the coordinate string when that string is two numbers of
\* the format joined by one comma, and throws the assertion's error when
\* the string is anything else or is absent.
C19_GetRegion ==
    (pc = "settled" /\ invocation = GetRegion) =>
        LET region == data.o.region.o
        IN  IF region.string = JStr("")
            THEN outcome = Fulfilled(JNull)
            ELSE IF /\ "coordinates" \in DOMAIN region
                    /\ \E lat, long \in GoodParts :
                            region.coordinates.c = lat.text \o <<",">> \o long.text
            THEN \E lat, long \in GoodParts :
                    /\ region.coordinates.c = lat.text \o <<",">> \o long.text
                    /\ outcome = Fulfilled([name |-> region.string,
                                            latitude |-> lat.value,
                                            longitude |-> long.value])
            ELSE outcome = Rejected(AssertionError)

C19_Witness ==
    /\ pc = "settled"
    /\ invocation = GetRegion
    /\ data.o.region.o.string = JStr("Europe")
    /\ "coordinates" \in DOMAIN data.o.region.o
    /\ data.o.region.o.coordinates.c =
            <<"1", "2", ".", "3", "4", ",", "-", "5", "6", ".", "7", "8">>
    /\ outcome = Fulfilled([name |-> JStr("Europe"),
                            latitude |-> [neg |-> FALSE, int |-> 12, frac |-> <<3, 4>>],
                            longitude |-> [neg |-> TRUE, int |-> 56, frac |-> <<7, 8>>]])

C19_WitnessUnparseable ==
    /\ pc = "settled"
    /\ invocation = GetRegion
    /\ data.o.region.o.string = JStr("Europe")
    /\ "coordinates" \in DOMAIN data.o.region.o
    /\ data.o.region.o.coordinates.c = <<"1", "2", "3", "4", ",", "1", "8", "0">>
    /\ outcome = Rejected(AssertionError)

C19_WitnessAbsent ==
    /\ pc = "settled"
    /\ invocation = GetRegion
    /\ data.o.region = JObj([string |-> JStr("Europe")])
    /\ outcome = Rejected(AssertionError)

C19_WitnessNoRegion ==
    /\ pc = "settled"
    /\ invocation = GetRegion
    /\ data.o.region.o.string = JStr("")
    /\ "coordinates" \in DOMAIN data.o.region.o
    /\ data.o.region.o.coordinates.c = <<"1", "2", "3", "4", ",", "1", "8", "0">>
    /\ outcome = Fulfilled(JNull)

\* the characters of the alphabet that are hexadecimal digits, and the dash
HexSamples == {"0", "9", "a", "f", "A", "F"}

\* C20: isValidUDID(s) is true when s has at least one character and each
\* of its characters is a hexadecimal digit of either case or a dash, and
\* false when s is empty or has any other character.
C20_IsValidUDID ==
    (pc = "settled" /\ invocation.method = "isValidUDID") =>
        LET s == invocation.args.udid
        IN  outcome = Fulfilled(JBool(
                /\ s # <<>>
                /\ \A i \in 1..Len(s) : s[i] \in HexSamples \cup {"-"}))

C20_Witness ==
    /\ pc = "settled"
    /\ invocation.method = "isValidUDID"
    /\ invocation.args.udid = <<"F", "-", "a">>
    /\ outcome = Fulfilled(JBool(TRUE))

C20_WitnessOther ==
    /\ pc = "settled"
    /\ invocation.method = "isValidUDID"
    /\ invocation.args.udid = <<"f", "g", "0">>
    /\ outcome = Fulfilled(JBool(FALSE))

C20_WitnessEmpty ==
    /\ pc = "settled"
    /\ invocation.method = "isValidUDID"
    /\ invocation.args.udid = <<>>
    /\ outcome = Fulfilled(JBool(FALSE))

\* C21: isValidID(n) is true exactly when n is a finite whole number that is
\* zero or positive and at most 2^53 - 1; it is false for a negative
\* number, a number with a fraction, NaN, an infinity and a whole number
\* from 2^53 on, and true for 0.
C21_IsValidID ==
    (pc = "settled" /\ invocation.method = "isValidID") =>
        LET n == invocation.args.id
            whole == n.tenths = 0
            zero == n.hi = 0 /\ n.lo = 0 /\ n.tenths = 0
            inSafeRange == n.hi <= 2^26 - 1
        IN  /\ n \in {NaN, Infinity, NegInfinity} => outcome = Fulfilled(JBool(FALSE))
            /\ n \notin {NaN, Infinity, NegInfinity} =>
                    outcome = Fulfilled(JBool(whole /\ inSafeRange /\ (zero \/ ~n.neg)))
            /\ n = Num(0) => outcome = Fulfilled(JBool(TRUE))

C21_Witness ==
    /\ pc = "settled"
    /\ invocation.method = "isValidID"
    /\ invocation.args.id = MAX_SAFE_INTEGER
    /\ outcome = Fulfilled(JBool(TRUE))

C21_WitnessUnsafe ==
    /\ pc = "settled"
    /\ invocation.method = "isValidID"
    /\ invocation.args.id = TwoPow53
    /\ outcome = Fulfilled(JBool(FALSE))

C21_WitnessNegative ==
    /\ pc = "settled"
    /\ invocation.method = "isValidID"
    /\ invocation.args.id = Neg(1)
    /\ outcome = Fulfilled(JBool(FALSE))

C21_WitnessZero ==
    /\ pc = "settled"
    /\ invocation.method = "isValidID"
    /\ invocation.args.id = Num(0)
    /\ outcome = Fulfilled(JBool(TRUE))

Validated == pc = "settled" /\ invocation.method = "assertValid"
Throws == outcome = Rejected(SchemaError(invocation.args.route))
Passes == outcome = Fulfilled(Undefined)

C22_WitnessPasses ==
    /\ Validated
    /\ invocation.args =
         Sample("GET /devices", DeviceList(<<WithApps(DeviceA, <<"com.x", "com.y">>)>>))
    /\ Passes

C22_WitnessMissing ==
    /\ Validated
    /\ invocation.args = Sample("PUT /devices/:udid/owner", Without(OwnerSet, "device"))
    /\ Throws

Updates(holder) ==
    {i \in 1..Len(flights) : flights[i].holder = holder /\ flights[i].call.method = "update"}
Setters(holder) ==
    {i \in 1..Len(flights) : flights[i].holder = holder /\ flights[i].call.method # "update"}
Delivered(i) == flights[i].order > 0

\* C23: while update() calls and setter calls on a Device overlap in any
\* order, the Device's snapshot is the record of construction or the record
\* that one getDevices response carried, whole.
C23_SnapshotIsOneWholeRecord ==
    \A h \in {"device", "twin"} : SnapshotAt(h) \in {DeviceA} \cup OneDeviceRecords

\* an update() delivered between the start and the delivery of a setter
C23_Witness ==
    \E i \in Updates("device"), j \in Setters("device") :
        /\ Delivered(i) /\ Delivered(j)
        /\ flights[i].result.state = "fulfilled"
        /\ flights[j].after < flights[i].order
        /\ flights[i].order < flights[j].order
        /\ flights[j].wire # <<>>
        /\ SnapshotAt("device") = DeviceA2

C23_WitnessSetterFirst ==
    \E i \in Updates("device"), j \in Setters("device") :
        /\ Delivered(i) /\ Delivered(j)
        /\ flights[i].result.state = "fulfilled"
        /\ flights[i].after < flights[j].order
        /\ flights[j].order < flights[i].order
        /\ SnapshotAt("device") = DeviceB

\* the step in which the update() that is flight i completes
UpdateCompletes(i) ==
    /\ i <= Len(flights')
    /\ flights[i].call.method = "update"
    /\ flights[i].result = Pending
    /\ flights'[i].result # Pending

\* C24: the step that completes an update() on one object leaves the
\* snapshot of every other object as it was, also that of the Device made
\* from the same raw record.
C24_UpdateChangesOnlyItsObject ==
    [][\A i \in 1..Len(flights) :
         UpdateCompletes(i) =>
            \A h \in Holders \ {flights[i].holder} :
                heap'[refs'[h]] = heap[refs[h]]]_vars

\* the Device was updated; the Device made from the same record was not
C24_Witness ==
    /\ \E i \in Updates("device") : flights[i].result = Fulfilled(Undefined)
    /\ Updates("twin") = {}
    /\ SnapshotAt("device") = DeviceA2
    /\ SnapshotAt("twin") = DeviceA
    /\ SnapshotAt("app") = AppX

C24_WitnessApp ==
    /\ \E i \in Updates("app") : flights[i].result = Fulfilled(Undefined)
    /\ SnapshotAt("app") = AppX2
    /\ SnapshotAt("device") = DeviceA
    /\ SnapshotAt("twin") = DeviceA

\* C25: an object's record is its own: the values its getters return change
\* only in the step that completes a fulfilled update() of that object.
C25_RecordChangesOnlyByOwnUpdate ==
    [][\A h \in Holders :
         heap'[refs'[h]] # heap[refs[h]] =>
            \E i \in 1..Len(flights) :
                /\ UpdateCompletes(i)
                /\ flights[i].holder = h
                /\ flights'[i].result = Fulfilled(Undefined)]_vars

\* the positions of list whose entry is in chosen, and the k-th of them
Positions(list, chosen) == {i \in 1..Len(list) : list[i] \in chosen}
Kth(positions, k) == CHOOSE i \in positions : Cardinality({j \in positions : j <= i}) = k

\* result is the objects of the given type made from the entries of list
\* that are in chosen, in the order of list
IsSelection(result, type, list, chosen) ==
    /\ result.state = "fulfilled"
    /\ result.value.t = "array"
    /\ Len(result.value.a) = Cardinality(Positions(list, chosen))
    /\ \A k \in 1..Len(result.value.a) :
            result.value.a[k] = Created(type, list[Kth(Positions(list, chosen), k)])

Identifiers(device) == {entry.o.identifier : entry \in SetOf(device.o.apps.a)}

\* C26: Device.getApps(), both calls answered well and the detail carrying
\* an app list, returns the apps of the fetched app list whose bundleId is
\* the identifier of an entry of the detail's app list, in the order of the
\* app list.  App.getDevices() asks for the device list with includeApps
\* and, every device carrying an app list, returns the devices with an entry
\* whose identifier is the App's bundleId, in the order of the device list.
C26_CrossReferenceByBundleId ==
    /\ (/\ pc = "settled"
        /\ invocation = DeviceGetApps
        /\ \A i \in 1..Len(joined) : joined[i].result.state = "fulfilled"
        /\ "apps" \in DOMAIN joined[2].reply.body.o.device.o) =>
            LET apps == joined[1].reply.body.o.apps.a
                detail == joined[2].reply.body.o.device
            IN  IsSelection(outcome, "App", apps,
                            {app \in SetOf(apps) : app.o.bundleId \in Identifiers(detail)})
    /\ (invocation = AppCall("getDevices") /\ pc \in {"awaiting", "settled"}) =>
            /\ awaited.method = "getDevices"
            /\ Len(wire) = 1
            /\ wire[1].searchParams.entries = <<[key |-> "includeApps", str |-> "1"]>>
    /\ (/\ pc = "settled"
        /\ invocation = AppCall("getDevices")
        /\ reply.status = 200
        /\ assertValid("GET /devices", reply.body)
        /\ \A device \in SetOf(reply.body.o.devices.a) : "apps" \in DOMAIN device.o) =>
            LET devices == reply.body.o.devices.a
            IN  IsSelection(outcome, "Device", devices,
                            {device \in SetOf(devices) :
                                appData.o.bundleId \in Identifiers(device)})

\* the detail lists com.x before com.y, the app list AppY before AppX
C26_Witness ==
    /\ pc = "settled"
    /\ invocation = DeviceGetApps
    /\ joined[1].reply = Response(200, WrappedBody("apps", JArr(<<AppY, AppX>>)))
    /\ joined[2].reply =
         Response(200, WrappedBody("device", WithApps(EntityRecord, <<"com.x", "com.z", "com.y">>)))
    /\ outcome = Fulfilled(JArr(<<Created("App", AppY), Created("App", AppX)>>))

C26_WitnessDevices ==
    /\ pc = "settled"
    /\ invocation = AppCall("getDevices")
    /\ appData = AppX
    /\ reply = Response(200, DeviceList(<<WithApps(DeviceB, <<"com.y", "com.x">>),
                                          WithApps(DeviceA, <<"com.x">>)>>))
    /\ outcome = Fulfilled(JArr(<<Created("Device", WithApps(DeviceB, <<"com.y", "com.x">>)),
                                  Created("Device", WithApps(DeviceA, <<"com.x">>))>>))

C26_WitnessOneDevice ==
    /\ pc = "settled"
    /\ invocation = AppCall("getDevices")
    /\ appData = AppX
    /\ reply = Response(200, DeviceList(<<WithApps(DeviceA, <<"com.x">>), WithApps(DeviceB, <<>>)>>))
    /\ outcome = Fulfilled(JArr(<<Created("Device", WithApps(DeviceA, <<"com.x">>))>>))

IncludeApps(request) ==
    IF request.searchParams = Undefined THEN <<>>
    ELSE SelectSeq(request.searchParams.entries, LAMBDA e : e.key = "includeApps")

\* C27: getDevice sends includeApps=true when the option is true and no
\* includeApps parameter otherwise; getDevices sends includeApps=1 when the
\* option is true and no includeApps parameter when it is false or omitted.
C27_IncludeAppsPerRoute ==
    (pc \in {"awaiting", "settled"} /\ invocation.layer = "api" /\ wire # <<>>) =>
        /\ invocation.method = "getDevice" =>
              IncludeApps(wire[1]) =
                 IF invocation.args.options.includeApps = JBool(TRUE)
                 THEN <<[key |-> "includeApps", str |-> "true"]>>
                 ELSE <<>>
        /\ invocation.method = "getDevices" =>
              IncludeApps(wire[1]) =
                 IF invocation.args.options.includeApps = JBool(TRUE)
                 THEN <<[key |-> "includeApps", str |-> "1"]>>
                 ELSE <<>>

C27_Witness ==
    /\ pc = "awaiting"
    /\ invocation.method = "getDevices"
    /\ invocation.args.options.includeApps = JBool(TRUE)
    /\ IncludeApps(wire[1]) = <<[key |-> "includeApps", str |-> "1"]>>

C27_WitnessFalse ==
    /\ pc = "awaiting"
    /\ invocation.method = "getDevices"
    /\ invocation.args.options.includeApps = JBool(FALSE)
    /\ IncludeApps(wire[1]) = <<>>

C27_WitnessDevice ==
    /\ pc = "awaiting"
    /\ invocation.method = "getDevice"
    /\ invocation.args.options.includeApps = JBool(TRUE)
    /\ IncludeApps(wire[1]) = <<[key |-> "includeApps", str |-> "true"]>>

C27_WitnessDeviceFalse ==
    /\ pc = "awaiting"
    /\ invocation.method = "getDevice"
    /\ invocation.args.options.includeApps \in {JBool(FALSE), Undefined}
    /\ wire[1].searchParams = Undefined

FailedWithSchemaError(member) ==
    member.result.state = "rejected" /\ member.result.error.name = "SchemaError"

\* C28: getApps() has both requests out at once, and it throws whenever one
\* of its two calls failed with SchemaError: whichever call completed first,
\* and also when the other call failed with an error of the remote service.
C28_SchemaErrorAlwaysThrown ==
    /\ (pc = "awaitingAll" /\ invocation = DeviceGetApps) =>
            \A i \in 1..Len(joined) : Len(joined[i].wire) = 1
    /\ (/\ pc = "settled"
        /\ invocation = DeviceGetApps
        /\ \E i \in 1..Len(joined) : FailedWithSchemaError(joined[i])) =>
            outcome.state = "rejected"

\* the flight of the set that was delivered last
LastDelivered(set) == CHOOSE i \in set : \A j \in set : flights[j].order <= flights[i].order

\* C29: when two or more update() calls on a Device overlapped and all have
\* completed, the snapshot is the record of the response delivered last
\* among those that carried one (all of them, when every call succeeded),
\* whichever call was started first.
C29_LastDeliveredWins ==
    \A h \in {"device", "twin"} :
        LET fulfilled == {i \in Updates(h) : flights[i].result = Fulfilled(Undefined)}
        IN  (/\ Cardinality(Updates(h)) >= 2
             /\ \A i \in Updates(h) : flights[i].result # Pending
             /\ fulfilled # {}) =>
                SnapshotAt(h) = flights[LastDelivered(fulfilled)].reply.body.o.devices.a[1]

\* the call started first was answered last, and its record stays
C29_Witness ==
    /\ Updates("device") = {1, 2}
    /\ flights[1].reply = Response(200, DeviceList(<<DeviceA2>>))
    /\ flights[2].reply = Response(200, DeviceList(<<DeviceB>>))
    /\ flights[2].after = 0
    /\ flights[2].order = 1
    /\ flights[1].order = 2
    /\ SnapshotAt("device") = DeviceA2

C29_WitnessInOrder ==
    /\ Updates("device") = {1, 2}
    /\ flights[1].reply = Response(200, DeviceList(<<DeviceA2>>))
    /\ flights[2].reply = Response(200, DeviceList(<<DeviceB>>))
    /\ flights[2].after = 0
    /\ flights[1].order = 1
    /\ flights[2].order = 2
    /\ SnapshotAt("device") = DeviceB

SetAssetTags(holder) ==
    {i \in 1..Len(flights) :
        flights[i].holder = holder /\ flights[i].call.method = "setAssetTag"}

\* C30: setAssetTag(text) writes exactly when text differs from the
\* snapshot's assetTag, and the snapshot is the one of construction or of the
\* last fulfilled update(): with no update() on the Device, a setAssetTag(v)
\* started after a setAssetTag(v) that wrote and succeeded writes again.
C30_SetterComparesWithSnapshot ==
    [][/\ Len(flights') = Len(flights) + 1 =>
            LET started == flights'[Len(flights')]
            IN  started.call.method = "setAssetTag" =>
                    (started.wire # <<>>
                        <=> JStr(started.call.args.text) # SnapshotAt(started.holder).o.assetTag)
       /\ \A h \in {"device", "twin"} :
            \A i, j \in SetAssetTags(h) :
                (/\ Updates(h) = {}
                 /\ flights[i].call = flights[j].call
                 /\ flights[i].wire # <<>>
                 /\ flights[i].result = Fulfilled(Undefined)
                 /\ flights[j].after >= flights[i].order) =>
                    flights[j].wire # <<>>]_vars

\* the second setAssetTag("tag-2"), started after the first succeeded, has
\* sent its own request; the snapshot still says "tag"
C30_Witness ==
    /\ Len(flights) = 2
    /\ flights[1].holder = "device" /\ flights[2].holder = "device"
    /\ flights[1].call = DeviceCall("setAssetTag", [text |-> "tag-2"])
    /\ flights[2].call = DeviceCall("setAssetTag", [text |-> "tag-2"])
    /\ flights[1].result = Fulfilled(Undefined)
    /\ flights[1].order = 1
    /\ flights[2].after = 1
    /\ Len(flights[2].wire) = 1
    /\ SnapshotAt("device").o.assetTag = JStr("tag")

C30_WitnessNoWrite ==
    /\ Len(flights) = 2
    /\ flights[1].holder = "device" /\ flights[2].holder = "device"
    /\ flights[1].call = DeviceCall("setAssetTag", [text |-> "tag-2"])
    /\ flights[2].call = DeviceCall("setAssetTag", [text |-> "tag"])
    /\ flights[1].result = Fulfilled(Undefined)
    /\ flights[2].after = 1
    /\ flights[2].wire = <<>>
    /\ flights[2].result = Fulfilled(Undefined)
====
